---- MODULE Spec2Model ----
(***************************************************************************)
(* A model of the session I/O bridge of the SSH/serial terminal client:    *)
(* one SessionTab (mainwindow.py) with its Session (sessions.py), the      *)
(* ConnectionThread worker that runs connect(), the reader thread that     *)
(* runs _read_loop, and the interactive (GUI) thread that runs the click,  *)
(* close and queued-signal handlers.  Every statement that reads or writes *)
(* a field shared between threads is a step of its own, so the threads     *)
(* interleave the way the Python threads can.                              *)
(***************************************************************************)
EXTENDS Integers, Sequences, FiniteSets, TLC

\* ------------------------------------------------------------------ bounds

\* Inbound chunks the transport delivers before it goes quiet.
MaxChunks == 2

\* Longest inbound byte sequence written to the terminal.
MaxLen == 3

\* The terminal's grid (80 x 24 in the program) and its scrollback capacity
\* (10000 rows in the program), scaled down.
Rows == 2

Cols == 3

HistoryCap == 2

\* Changes of the terminal's size during the life of a tab.
MaxResizes == 1

\* Calls of Session.send.
MaxSends == 2

\* Events the terminal widget handles in the widget check.
MaxEvents == 6

\* Words of a line in the overlay check.
MaxTokens == 2

\* ------------------------------------------------------------------- state

VARIABLES
    kind,          \* transport of the tab's connection: "ssh" | "serial"
    cfg,           \* SSH profile: "ok" (password) | "keyonly" | "nohost" |
                   \*   "nouser" | "nocreds" | "badkey" (key file missing)
    sessions,      \* Session objects SessionTab has constructed
    connects,      \* ConnectionThread.start() calls made by the tab
    client,        \* SSHSession.client field: "None" | "obj"
    clientObj,     \* the SSHClient object: "absent" | "new" | "open" | "closed"
    channel,       \* SSHSession.channel field: "None" | "obj"
    chanObj,       \* the Channel object: "absent" | "open" | "closed"
    serial_conn,   \* SerialSession.serial_conn field: "None" | "obj"
    serObj,        \* the serial.Serial object: "absent" | "open" | "closed"
    running,       \* Session.running
    cancelled,     \* ConnectionThread._cancelled
    workerPc,      \* position of ConnectionThread.run / Session.connect
    connectResult, \* what connect() returned: "none" | "true" | "false"
    readerPc,      \* position of each reader thread in _read_loop
    chunks,        \* chunks the reader has read so far
    guiPc,         \* position of the interactive thread
    guiCtx,        \* the handler the interactive thread is in
    guiQueue,      \* queued cross-thread signals, in posting order
    statusVisible, \* status_widget (with the Cancel button) is shown
    tabOpen,       \* the tab is still in the tab widget
    fed,           \* chunk numbers handed to _do_write_data, in order
    lastError,     \* cause of the last on_error callback
    connErrs,      \* on_error callbacks made by connect()
    readErrs,      \* on_error callbacks made by _read_loop
    readFault,     \* a transport read error was raised in _read_loop
    discCalled,    \* Session.disconnect() has been entered
    discOnLive,    \* disconnect() was entered on a Connected session
    discQuiet,     \* the disconnect() in progress began with no connect() running
    quietDiscs,    \* completed disconnect() calls that began with no connect() running
    closeFailed,   \* a close() of a transport object raised
    stepsSinceDisc,\* reader steps taken since disconnect() on a Connected session
    errAfterDisc,  \* _read_loop called on_error after disconnect() cleared running
    userCancelled, \* _cancel_connection has run and has called cancel()
    connectedRuns, \* executions of _on_connected
    failedRuns,    \* executions of _on_connection_failed
    screenWriters, \* threads that have executed _do_write_data
    termSize,      \* the terminal's current <<cols, rows>>
    cfgSize,       \* config['_term_cols'], config['_term_rows'] of the session
    ptySize,       \* window size of the channel's remote PTY
    resizes,       \* resizeEvents that changed the terminal's size
    sendPc,        \* position of a caller inside Session.send
    sends,         \* send() calls made
    sendErrs,      \* on_error callbacks made by send()
    sendFails,     \* exceptions raised inside send()'s try block
    sendOutcome,   \* how the last send() ended: "none" | "noop" | "sent" |
                   \*   "error" (callback) | "raised" (exception to the caller)
    input,         \* decoder check: the inbound byte sequence
    pending,       \* decoder check: the chunks of it not yet written
    termC,         \* the terminal that is written chunk by chunk
    termW,         \* the terminal that is written the whole sequence at once
    wholeFed,      \* termW has been written
    logging,       \* the tab has an active SessionLogger
    logText,       \* what has been written to the session log
    term,          \* widget check: the terminal (screen, parser, view)
    selection_start, \* widget check: the anchor <<col, row>> or NoCell
    selection_end, \* widget check: the focus <<col, row>> or NoCell
    is_selecting,  \* widget check: the left button is held after a press
    events,        \* widget check: events handled so far
    row_text,      \* overlay check: line_text, the text of the row painted
    syntax_highlight, \* overlay check: the syntax_highlight setting
    paintPc,       \* overlay check: "line" before the row's overlay is
                   \*   computed, "cells" while its cells are painted
    syntax_colors, \* overlay check: the row's overlay, column -> color
    painted,       \* overlay check: the colors of the last cell painted
    logger,        \* SessionTab.logger field: "None" | "obj"
    log_file,      \* SessionLogger.log_file field: "None" | "obj"
    logFileObj,    \* the log's file object: "absent" | "open" | "closed"
    cbRaised,      \* _on_data_received raised in the reader thread
    logged,        \* chunks SessionLogger.write has written to the file
    tabs,          \* window check: MainWindow.tabs, the open SessionTabs in
                   \*   tab order
    win_sessions,  \* window check: MainWindow.sessions, connection id -> tab
    tabConn,       \* window check: the connection id each tab was opened for
    disconnected,  \* window check: tabs whose disconnect() has been called
    winClosed      \* window check: closeEvent has run

sessVars == <<kind, cfg, sessions, connects, client, clientObj, channel, chanObj,
              serial_conn, serObj, running, cancelled, workerPc, connectResult,
              readerPc, chunks, guiPc, guiCtx, guiQueue, statusVisible, tabOpen,
              fed, lastError, connErrs, readErrs, readFault, discCalled,
              discOnLive, discQuiet, quietDiscs, closeFailed, stepsSinceDisc,
              errAfterDisc, userCancelled, connectedRuns, failedRuns,
              screenWriters, termSize, cfgSize, ptySize, resizes, sendPc,
              sends, sendErrs, sendFails, sendOutcome>>

\* What a write_data call may change: the event queue of the interactive
\* thread or, when the slot runs in the caller, what the decoder was fed.
postVars == <<guiQueue, fed, screenWriters>>

sizeVars == <<termSize, cfgSize, resizes>>

sendVars == <<sendPc, sends, sendErrs, sendFails, sendOutcome>>

feedVars == <<input, pending, termC, termW, wholeFed, logging, logText>>

termVars == <<term, selection_start, selection_end, is_selecting, events>>

synVars == <<row_text, syntax_highlight, paintPc, syntax_colors, painted>>

logVars == <<logger, log_file, logFileObj, cbRaised, logged>>

winVars == <<tabs, win_sessions, tabConn, disconnected, winClosed>>

vars == <<sessVars, feedVars, termVars, synVars, logVars, winVars>>

\* Reader threads a Session could have; connect() starts the next free one.
Readers == {1, 2}

\* Steps left of a _read_loop iteration once the while condition has passed,
\* up to and including the next evaluation of it: poll, recv, sleep, check.
ReaderIterSteps == 4

Event(t, n) == [t |-> t, n |-> n]

\* No size: the session's config before _start_connection, a session with
\* no PTY.
NoSize == <<0, 0>>

\* The sizes a resizeEvent can give the terminal.
Sizes == {<<Cols, Rows>>, <<Cols + 1, Rows + 1>>}

\* A connection of data_received that runs the slot in the emitting thread.
QueuedNever(thread) == FALSE

\* data_received.connect(self._do_write_data) is an automatic connection: an
\* emit from the thread the widget lives in calls the slot at once, an emit
\* from any other thread posts an event to the interactive thread.
Queued(thread) == thread # "gui"

\* TerminalWidget.write_data(data) called by `thread`: data_received.emit.
write_data(thread, ev) ==
    IF Queued(thread)
    THEN /\ guiQueue' = Append(guiQueue, ev)
         /\ UNCHANGED <<fed, screenWriters>>
    ELSE /\ fed' = IF ev.t = "data" THEN Append(fed, ev.n) ELSE fed
         /\ screenWriters' = screenWriters \cup {thread}
         /\ UNCHANGED guiQueue

\* The SSH profiles of the model: a password; only a key file that exists;
\* no host; no username; neither password nor key file; no password and a
\* key file path that does not exist.
Profiles == {"ok", "keyonly", "nohost", "nouser", "nocreds", "badkey"}

\* config.get("host", ""), config.get("username", "")
HasHost(c) == c # "nohost"

HasUser(c) == c # "nouser"

\* password = config.get("password", "")
HasPassword(c) == c \in {"ok", "nohost", "nouser"}

\* key_file = config.get("key_file", ""): no path, a path of no file, a file.
KeyFile(c) == IF c = "keyonly" THEN "exists"
              ELSE IF c = "badkey" THEN "missing" ELSE "none"

\* A check of the key file that never asks whether the file exists.
KeyUsableAnyPath(c) == KeyFile(c) # "none"

\* `key_file and os.path.exists(key_file)`
KeyUsable(c) == KeyFile(c) = "exists"

\* SSHSession.is_connected / SerialSession.is_connected
is_connected ==
    IF kind = "ssh" THEN running /\ channel # "None"
                    ELSE running /\ serial_conn # "None"

\* QThread.isRunning() of the ConnectionThread
isRunning == workerPc \notin {"unstarted", "done"}

AliveReaders == {r \in Readers : readerPc[r] \notin {"none", "done", "escaped"}}

\* ------------------------------------------------------------ construction

\* SessionTab.__init__ has built the widgets; _start_connection has not run.
InitSess ==
    /\ kind \in {"ssh", "serial"}
    /\ cfg \in Profiles
    /\ (kind = "serial" => cfg = "ok")
    /\ sessions = 0
    /\ connects = 0
    /\ client = "None" /\ clientObj = "absent"
    /\ channel = "None" /\ chanObj = "absent"
    /\ serial_conn = "None" /\ serObj = "absent"
    /\ running = FALSE
    /\ cancelled = FALSE
    /\ workerPc = "unstarted"
    /\ connectResult = "none"
    /\ readerPc = [r \in Readers |-> "none"]
    /\ chunks = 0
    /\ guiPc = "init"
    /\ guiCtx = "none"
    /\ guiQueue = <<>>
    /\ statusVisible = TRUE
    /\ tabOpen = TRUE
    /\ fed = <<>>
    /\ lastError = "none"
    /\ connErrs = 0
    /\ readErrs = 0
    /\ readFault = FALSE
    /\ discCalled = FALSE
    /\ discOnLive = FALSE
    /\ discQuiet = FALSE
    /\ quietDiscs = 0
    /\ closeFailed = FALSE
    /\ stepsSinceDisc = 0
    /\ errAfterDisc = FALSE
    /\ userCancelled = FALSE
    /\ connectedRuns = 0
    /\ failedRuns = 0
    /\ screenWriters = {}
    /\ termSize = <<Cols, Rows>>
    /\ cfgSize = NoSize
    /\ ptySize = NoSize
    /\ resizes = 0
    /\ sendPc = "idle"
    /\ sends = 0
    /\ sendErrs = 0
    /\ sendFails = 0
    /\ sendOutcome = "none"

\* Variables only the interactive thread's handlers write.
guiOnly == <<guiPc, guiCtx, statusVisible, tabOpen, userCancelled,
             connectedRuns, failedRuns, discQuiet, quietDiscs, closeFailed,
             discCalled, discOnLive, cancelled, sessions, connects>>

\* Variables only the reader thread writes.
readerOnly == <<chunks, readErrs, readFault, errAfterDisc>>

\* SessionTab._start_connection: one Session, one ConnectionThread, started.
StartConnection ==
    /\ guiPc = "init"
    /\ sessions' = sessions + 1
    /\ connects' = connects + 1
    /\ workerPc' = IF kind = "ssh" THEN "c_new" ELSE "s_open"
    /\ guiPc' = "idle"
    /\ write_data("gui", Event("notice", 0))
    /\ cfgSize' = IF kind = "ssh" THEN termSize ELSE cfgSize
    /\ UNCHANGED <<kind, cfg, client, clientObj, channel, chanObj, serial_conn,
                   serObj, running, cancelled, connectResult, readerPc, chunks,
                   guiCtx, statusVisible, tabOpen, lastError,
                   connErrs, readErrs, readFault, discCalled, discOnLive,
                   discQuiet, quietDiscs, closeFailed, stepsSinceDisc,
                   errAfterDisc, userCancelled, connectedRuns, failedRuns,
                   termSize, ptySize, resizes, sendVars, feedVars, termVars,
                   synVars, logVars, winVars>>

\* ------------------------------------------------- connect-worker thread

workerFrame == <<kind, cfg, guiOnly, readerOnly, stepsSinceDisc, sizeVars,
                sendVars, feedVars, termVars, synVars, logVars, winVars>>

\* A connect() that returns False without calling on_error.
ConnectFailSilent(cause) ==
    /\ connectResult' = "false"
    /\ workerPc' = "r_check"
    /\ UNCHANGED <<lastError, connErrs, postVars>>

\* An `except` clause of connect(): one on_error callback (SessionTab._on_error
\* posts the text to the interactive thread), then `return False`.
ConnectFail(cause) ==
    /\ lastError' = cause
    /\ connErrs' = connErrs + 1
    /\ write_data("worker", Event("err", 0))
    /\ connectResult' = "false"
    /\ workerPc' = "r_check"

\* self.client = paramiko.SSHClient()
ConnNewClient ==
    /\ workerPc = "c_new"
    /\ client' = "obj"
    /\ clientObj' = "new"
    /\ workerPc' = "c_validate"
    /\ UNCHANGED <<workerFrame, channel, chanObj, ptySize, serial_conn, serObj, running,
                   connectResult, readerPc, postVars, lastError, connErrs>>

\* The host, username and password/key checks, before any network I/O.
ConnValidate ==
    /\ workerPc = "c_validate"
    /\ IF ~HasHost(cfg) THEN ConnectFail("NoHost")
       ELSE IF ~HasUser(cfg) THEN ConnectFail("NoUser")
       ELSE IF ~HasPassword(cfg) /\ ~KeyUsable(cfg) THEN ConnectFail("NoCredentials")
       ELSE /\ workerPc' = "c_conn_call"
            /\ UNCHANGED <<connectResult, postVars, lastError, connErrs>>
    /\ UNCHANGED <<workerFrame, client, clientObj, channel, chanObj, ptySize, serial_conn,
                   serObj, running, readerPc>>

\* self.client.connect(**connect_kwargs): the attribute read.  A disconnect()
\* that has cleared the field makes it an AttributeError (except Exception).
ConnCall ==
    /\ workerPc = "c_conn_call"
    /\ IF client = "None" THEN ConnectFail("Generic")
       ELSE /\ workerPc' = "c_conn_wait"
            /\ UNCHANGED <<connectResult, postVars, lastError, connErrs>>
    /\ UNCHANGED <<workerFrame, client, clientObj, channel, chanObj, ptySize, serial_conn,
                   serObj, running, readerPc>>

ConnectCauses == {"Auth", "SSH", "Timeout", "DNS", "Refused", "Network", "Generic"}

\* The blocking network connect returns or raises.
ConnWait ==
    /\ workerPc = "c_conn_wait"
    /\ \/ /\ clientObj = "new"
          /\ clientObj' = "open"
          /\ workerPc' = "c_shell"
          /\ UNCHANGED <<connectResult, postVars, lastError, connErrs>>
       \/ /\ clientObj = "new"
          /\ \E cause \in ConnectCauses : ConnectFail(cause)
          /\ UNCHANGED clientObj
       \/ /\ clientObj = "closed"
          /\ ConnectFail("SSH")
          /\ UNCHANGED clientObj
    /\ UNCHANGED <<workerFrame, client, channel, chanObj, ptySize, serial_conn, serObj,
                   running, readerPc>>

\* self.client.invoke_shell(...): the attribute read and the call.
ConnShell ==
    /\ workerPc = "c_shell"
    /\ \/ /\ client = "None"
          /\ ConnectFail("Generic")
          /\ UNCHANGED <<chanObj, ptySize>>
       \/ /\ client = "obj" /\ clientObj = "open"
          /\ chanObj' = "open"
          /\ ptySize' = cfgSize
          /\ workerPc' = "c_chan_assign"
          /\ UNCHANGED <<connectResult, postVars, lastError, connErrs>>
       \/ /\ client = "obj"
          /\ ConnectFail("SSH")
          /\ UNCHANGED <<chanObj, ptySize>>
    /\ UNCHANGED <<workerFrame, client, clientObj, channel, serial_conn, serObj,
                   running, readerPc>>

\* self.channel = <the channel invoke_shell returned>
ConnChanAssign ==
    /\ workerPc = "c_chan_assign"
    /\ channel' = "obj"
    /\ workerPc' = "c_settimeout"
    /\ UNCHANGED <<workerFrame, client, clientObj, chanObj, ptySize, serial_conn, serObj,
                   running, connectResult, readerPc, postVars, lastError, connErrs>>

\* self.channel.settimeout(0.1): reads the field again.
ConnSetTimeout ==
    /\ workerPc = "c_settimeout"
    /\ IF channel = "None" THEN ConnectFail("Generic")
       ELSE /\ workerPc' = "c_running"
            /\ UNCHANGED <<connectResult, postVars, lastError, connErrs>>
    /\ UNCHANGED <<workerFrame, client, clientObj, channel, chanObj, ptySize, serial_conn,
                   serObj, running, readerPc>>

\* serial.Serial(...): the constructor opens the port, or raises.
SerOpen ==
    /\ workerPc = "s_open"
    /\ \/ /\ serObj' = "open"
          /\ workerPc' = "s_assign"
          /\ UNCHANGED <<connectResult, postVars, lastError, connErrs>>
       \/ /\ ConnectFail("Serial")
          /\ UNCHANGED serObj
    /\ UNCHANGED <<workerFrame, client, clientObj, channel, chanObj, ptySize, serial_conn,
                   running, readerPc>>

\* self.serial_conn = <the opened port>
SerAssign ==
    /\ workerPc = "s_assign"
    /\ serial_conn' = "obj"
    /\ workerPc' = "c_running"
    /\ UNCHANGED <<workerFrame, client, clientObj, channel, chanObj, ptySize, serObj,
                   running, connectResult, readerPc, postVars, lastError, connErrs>>

\* self.running = True
ConnRunning ==
    /\ workerPc = "c_running"
    /\ running' = TRUE
    /\ workerPc' = "c_thread"
    /\ UNCHANGED <<workerFrame, client, clientObj, channel, chanObj, ptySize, serial_conn,
                   serObj, connectResult, readerPc, postVars, lastError, connErrs>>

\* The reader connect() starts: the next thread that was never started.
NewReader == CHOOSE r \in Readers :
                 /\ readerPc[r] = "none"
                 /\ \A q \in Readers : q < r => readerPc[q] # "none"

\* A connect() that starts its reader thread twice.
ConnThreadTwice ==
    /\ workerPc = "c_thread"
    /\ readerPc' = [r \in Readers |-> "check"]
    /\ connectResult' = "true"
    /\ workerPc' = "r_check"
    /\ UNCHANGED <<workerFrame, client, clientObj, channel, chanObj, ptySize, serial_conn,
                   serObj, running, postVars, lastError, connErrs>>

\* self.thread = threading.Thread(target=self._read_loop); start(); return True
ConnThread ==
    /\ workerPc = "c_thread"
    /\ readerPc' = [readerPc EXCEPT ![NewReader] = "check"]
    /\ connectResult' = "true"
    /\ workerPc' = "r_check"
    /\ UNCHANGED <<workerFrame, client, clientObj, channel, chanObj, ptySize, serial_conn,
                   serObj, running, postVars, lastError, connErrs>>

\* ConnectionThread.run: `if not self._cancelled:`
RunCheck ==
    /\ workerPc = "r_check"
    /\ workerPc' = IF cancelled THEN "done" ELSE "r_emit"
    /\ UNCHANGED <<workerFrame, client, clientObj, channel, chanObj, ptySize, serial_conn,
                   serObj, running, connectResult, readerPc, postVars, lastError,
                   connErrs>>

\* ConnectionThread.run: self.connected.emit() / self.failed.emit(...), queued
\* to the interactive thread that owns the SessionTab.
RunEmit ==
    /\ workerPc = "r_emit"
    /\ guiQueue' = Append(guiQueue,
           Event(IF connectResult = "true" THEN "connected" ELSE "failed", 0))
    /\ workerPc' = "done"
    /\ UNCHANGED <<workerFrame, fed, screenWriters, client, clientObj, channel, chanObj, ptySize, serial_conn,
                   serObj, running, connectResult, readerPc, lastError, connErrs>>

Worker ==
    \/ ConnNewClient \/ ConnValidate \/ ConnCall \/ ConnWait \/ ConnShell
    \/ ConnChanAssign \/ ConnSetTimeout \/ SerOpen \/ SerAssign
    \/ ConnRunning \/ ConnThread \/ RunCheck \/ RunEmit

\* ----------------------------------------------------------- reader thread

readerFrame == <<kind, cfg, sessions, connects, client, clientObj, channel, chanObj,
                 serial_conn, serObj, running, cancelled, workerPc, connectResult,
                 guiPc, guiCtx, statusVisible, tabOpen, connErrs, discCalled,
                 discOnLive, discQuiet, quietDiscs, closeFailed, userCancelled,
                 connectedRuns, failedRuns, ptySize, sizeVars, sendVars,
                 feedVars, termVars, synVars, logVars, winVars>>

\* The transport field _read_loop reads: self.channel or self.serial_conn.
Handle == IF kind = "ssh" THEN channel ELSE serial_conn

HandleObj == IF kind = "ssh" THEN chanObj ELSE serObj

\* One more reader step since disconnect() was entered on a Connected session.
Tick ==
    stepsSinceDisc' = IF discOnLive /\ stepsSinceDisc <= ReaderIterSteps
                      THEN stepsSinceDisc + 1 ELSE stepsSinceDisc

\* A loop that tests only the transport field, never the running flag.
LoopGuardNoFlag == Handle # "None"

\* `while self.running and self.channel:` (SerialSession: self.serial_conn)
LoopGuard == running /\ Handle # "None"

\* Where an exception raised inside the loop's `try:` goes: the except clause.
Raised == "except"

ReaderCheck(r) ==
    /\ readerPc[r] = "check"
    /\ readerPc' = [readerPc EXCEPT ![r] = IF LoopGuard THEN "poll" ELSE "done"]
    /\ Tick
    /\ UNCHANGED <<readerFrame, readerOnly, postVars, lastError>>

\* `if self.channel.recv_ready():` / `if self.serial_conn.in_waiting:`.  The
\* field may have been cleared (AttributeError); the transport may fail; a
\* closed serial port raises, a closed channel just has nothing to read.
ReaderPoll(r) ==
    /\ readerPc[r] = "poll"
    /\ \/ /\ Handle = "None"
          /\ readerPc' = [readerPc EXCEPT ![r] = Raised]
          /\ UNCHANGED readFault
       \/ /\ Handle = "obj"
          /\ HandleObj = "open" \/ kind = "ssh"
          /\ readerPc' = [readerPc EXCEPT ![r] = "sleep"]
          /\ UNCHANGED readFault
       \/ /\ Handle = "obj" /\ HandleObj = "open"
          /\ chunks < MaxChunks
          /\ readerPc' = [readerPc EXCEPT ![r] = "recv"]
          /\ UNCHANGED readFault
       \/ /\ Handle = "obj"
          /\ HandleObj = "open" \/ kind = "serial"
          /\ readerPc' = [readerPc EXCEPT ![r] = Raised]
          /\ readFault' = (readFault \/ HandleObj = "open")
    /\ Tick
    /\ UNCHANGED <<readerFrame, chunks, readErrs, errAfterDisc, postVars, lastError>>

\* _on_data_received after self.terminal.write_data(data): a tab that has no
\* logger returns to the loop, a tab with a logger goes on to
\* `if self.logger and self.logger.is_active:`.
AfterWriteData == IF logger = "None" THEN "sleep" ELSE "cb_logger"

\* `data = self.channel.recv(4096)` / `self.serial_conn.read(...)`, and
\* `if data: self.on_data(data)`: SessionTab._on_data_received posts the chunk.
ReaderRecv(r) ==
    /\ readerPc[r] = "recv"
    /\ \/ /\ Handle = "None"
          /\ readerPc' = [readerPc EXCEPT ![r] = Raised]
          /\ UNCHANGED <<chunks, postVars, readFault>>
       \/ /\ Handle = "obj" /\ HandleObj = "open"
          /\ chunks' = chunks + 1
          /\ write_data("reader", Event("data", chunks + 1))
          /\ readerPc' = [readerPc EXCEPT ![r] = AfterWriteData]
          /\ UNCHANGED readFault
       \/ /\ Handle = "obj"
          /\ readerPc' = [readerPc EXCEPT ![r] = IF kind = "ssh" /\ HandleObj = "closed"
                                                 THEN "sleep" ELSE Raised]
          /\ readFault' = (readFault \/ HandleObj = "open")
          /\ UNCHANGED <<chunks, postVars>>
    /\ Tick
    /\ UNCHANGED <<readerFrame, readErrs, errAfterDisc, lastError>>

\* time.sleep(0.01)
ReaderSleep(r) ==
    /\ readerPc[r] = "sleep"
    /\ readerPc' = [readerPc EXCEPT ![r] = "check"]
    /\ Tick
    /\ UNCHANGED <<readerFrame, readerOnly, postVars, lastError>>

\* `except Exception as e:` `if self.running:` ... `break`
ReaderExcept(r) ==
    /\ readerPc[r] = "except"
    /\ readerPc' = [readerPc EXCEPT ![r] = IF running THEN "report" ELSE "done"]
    /\ Tick
    /\ UNCHANGED <<readerFrame, readerOnly, postVars, lastError>>

\* self.on_error(f"SSH read error: {e}") and the `break`
ReaderReport(r) ==
    /\ readerPc[r] = "report"
    /\ readErrs' = readErrs + 1
    /\ lastError' = "ReadError"
    /\ errAfterDisc' = (errAfterDisc \/ (discCalled /\ ~running))
    /\ write_data("reader", Event("err", 0))
    /\ readerPc' = [readerPc EXCEPT ![r] = "done"]
    /\ Tick
    /\ UNCHANGED <<readerFrame, chunks, readFault>>

Reader ==
    \E r \in Readers :
        \/ ReaderCheck(r) \/ ReaderPoll(r) \/ ReaderRecv(r)
        \/ ReaderSleep(r) \/ ReaderExcept(r) \/ ReaderReport(r)

\* ------------------------------------------------------ interactive thread

guiFrame == <<kind, cfg, sessions, connects, workerPc, connectResult, readerPc,
              readerOnly, lastError, connErrs, readErrs, stepsSinceDisc,
              sizeVars, sendVars, feedVars, termVars, synVars, logVars, winVars>>

\* Where the interactive thread goes when Session.disconnect() returns.
AfterDisconnect ==
    IF guiCtx = "close" THEN "close_end" ELSE "wait"

\* The handler's next step after `if self.connect_thread.isRunning():`.
CancelEntry == IF isRunning THEN "cancel_set" ELSE "cancel_end"

\* SessionTab._cancel_connection, entered by a click on the Cancel button.
CancelClick ==
    /\ guiPc = "idle" /\ tabOpen /\ statusVisible
    /\ guiPc' = CancelEntry
    /\ guiCtx' = "cancel"
    /\ UNCHANGED <<guiFrame, client, clientObj, channel, chanObj, ptySize, serial_conn,
                   serObj, running, cancelled, guiQueue, statusVisible, tabOpen,
                   fed, screenWriters, discCalled, discOnLive, discQuiet, quietDiscs,
                   closeFailed, userCancelled, connectedRuns, failedRuns>>

\* SessionTab.disconnect after its logger part:
\* `if self.connect_thread and self.connect_thread.isRunning():`
DisconnectEntry == IF isRunning THEN "cancel_set" ELSE "close_disc"

DisconnectCtx == IF isRunning THEN "close_cancel" ELSE "close"

\* SessionTab.disconnect, entered by MainWindow._close_tab: `if self.logger:`
CloseTab ==
    /\ guiPc = "idle" /\ tabOpen
    /\ guiPc' = IF logger # "None" THEN "l_close" ELSE DisconnectEntry
    /\ guiCtx' = IF logger # "None" THEN "close" ELSE DisconnectCtx
    /\ UNCHANGED <<guiFrame, client, clientObj, channel, chanObj, ptySize, serial_conn,
                   serObj, running, cancelled, guiQueue, statusVisible, tabOpen,
                   fed, screenWriters, discCalled, discOnLive, discQuiet, quietDiscs,
                   closeFailed, userCancelled, connectedRuns, failedRuns>>

\* ConnectionThread.cancel: self._cancelled = True; then session.disconnect()
CancelSet ==
    /\ guiPc = "cancel_set"
    /\ cancelled' = TRUE
    /\ guiPc' = "d_running"
    /\ UNCHANGED <<guiFrame, client, clientObj, channel, chanObj, ptySize, serial_conn,
                   serObj, running, guiCtx, guiQueue, statusVisible, tabOpen,
                   fed, screenWriters, discCalled, discOnLive, discQuiet, quietDiscs,
                   closeFailed, userCancelled, connectedRuns, failedRuns>>

\* SessionTab.disconnect: `if self.session: self.session.disconnect()`
CloseDisc ==
    /\ guiPc = "close_disc"
    /\ guiPc' = "d_running"
    /\ guiCtx' = "close"
    /\ UNCHANGED <<guiFrame, client, clientObj, channel, chanObj, ptySize, serial_conn,
                   serObj, running, cancelled, guiQueue, statusVisible, tabOpen,
                   fed, screenWriters, discCalled, discOnLive, discQuiet, quietDiscs,
                   closeFailed, userCancelled, connectedRuns, failedRuns>>

\* Session.disconnect: self.running = False
DiscRunning ==
    /\ guiPc = "d_running"
    /\ running' = FALSE
    /\ discCalled' = TRUE
    /\ discOnLive' = (discOnLive \/ (is_connected /\ AliveReaders # {}))
    /\ discQuiet' = ~isRunning
    /\ guiPc' = IF kind = "ssh" THEN "d_channel" ELSE "d_serial"
    /\ UNCHANGED <<guiFrame, client, clientObj, channel, chanObj, ptySize, serial_conn,
                   serObj, cancelled, guiCtx, guiQueue, statusVisible, tabOpen,
                   fed, screenWriters, quietDiscs, closeFailed, userCancelled, connectedRuns,
                   failedRuns>>

\* A close() whose exception is not swallowed: the `= None` after it is skipped.
ClearedFieldUnlessRaised(raised) == IF raised THEN "obj" ELSE "None"

\* What a `try: x.close() except Exception: pass` leaves of the field that is
\* set to None right after it, whether or not close() raised.
ClearedField(raised) == "None"

\* SSHSession.disconnect: `if self.channel:` close it, swallow, set None.
DiscChannel ==
    /\ guiPc = "d_channel"
    /\ IF channel = "None"
       THEN UNCHANGED <<channel, chanObj, closeFailed>>
       ELSE \E raised \in BOOLEAN :
               /\ chanObj' = "closed"
               /\ closeFailed' = (closeFailed \/ raised)
               /\ channel' = ClearedField(raised)
    /\ guiPc' = "d_client"
    /\ UNCHANGED <<guiFrame, ptySize, client, clientObj, serial_conn, serObj, running,
                   cancelled, guiCtx, guiQueue, statusVisible, tabOpen, fed, screenWriters,
                   discCalled, discOnLive, discQuiet, quietDiscs, userCancelled,
                   connectedRuns, failedRuns>>

\* What SSHClient.close() does to the client object: it closes the transport
\* if there is one; during the TCP connect there is none yet and it does nothing.
ClosedClient ==
    IF clientObj = "new"
    THEN (IF workerPc = "c_conn_wait" THEN {"new", "closed"} ELSE {"new"})
    ELSE {"closed"}

\* SSHSession.disconnect: `if self.client:` close it, swallow, set None; the
\* session is left when the method returns.
DiscClient ==
    /\ guiPc = "d_client"
    /\ IF client = "None"
       THEN UNCHANGED <<client, clientObj, chanObj, closeFailed>>
       ELSE \E raised \in BOOLEAN, after \in ClosedClient :
               /\ clientObj' = after
               /\ chanObj' = IF chanObj = "open" /\ after = "closed"
                             THEN "closed" ELSE chanObj
               /\ closeFailed' = (closeFailed \/ raised)
               /\ client' = ClearedField(raised)
    /\ quietDiscs' = IF discQuiet THEN quietDiscs + 1 ELSE quietDiscs
    /\ guiPc' = AfterDisconnect
    /\ UNCHANGED <<guiFrame, ptySize, channel, serial_conn, serObj, running, cancelled,
                   guiCtx, guiQueue, statusVisible, tabOpen, fed, screenWriters, discCalled,
                   discOnLive, discQuiet, userCancelled, connectedRuns, failedRuns>>

\* SerialSession.disconnect: `if self.serial_conn:` close it, swallow, set None.
DiscSerial ==
    /\ guiPc = "d_serial"
    /\ IF serial_conn = "None"
       THEN UNCHANGED <<serial_conn, serObj, closeFailed>>
       ELSE \E raised \in BOOLEAN :
               /\ serObj' = "closed"
               /\ closeFailed' = (closeFailed \/ raised)
               /\ serial_conn' = ClearedField(raised)
    /\ quietDiscs' = IF discQuiet THEN quietDiscs + 1 ELSE quietDiscs
    /\ guiPc' = AfterDisconnect
    /\ UNCHANGED <<guiFrame, client, clientObj, channel, chanObj, ptySize, running,
                   cancelled, guiCtx, guiQueue, statusVisible, tabOpen, fed, screenWriters,
                   discCalled, discOnLive, discQuiet, userCancelled,
                   connectedRuns, failedRuns>>

\* self.connect_thread.wait(1000) returns: the worker has finished, or the
\* second has passed while connect() is still blocked.
WaitReturn ==
    /\ guiPc = "wait"
    /\ guiPc' = IF guiCtx = "cancel" THEN "cancel_end" ELSE "close_disc"
    /\ UNCHANGED <<guiFrame, client, clientObj, channel, chanObj, ptySize, serial_conn,
                   serObj, running, cancelled, guiCtx, guiQueue, statusVisible,
                   tabOpen, fed, screenWriters, discCalled, discOnLive, discQuiet, quietDiscs,
                   closeFailed, userCancelled, connectedRuns, failedRuns>>

\* _cancel_connection: status_widget.hide() and the [CANCELLED] notice.
CancelEnd ==
    /\ guiPc = "cancel_end"
    /\ statusVisible' = FALSE
    /\ userCancelled' = (userCancelled \/ cancelled)
    /\ guiPc' = "idle"
    /\ guiCtx' = "none"
    /\ write_data("gui", Event("notice", 0))
    /\ UNCHANGED <<guiFrame, client, clientObj, channel, chanObj, ptySize,
                   serial_conn, serObj, running, cancelled, tabOpen,
                   discCalled, discOnLive, discQuiet, quietDiscs, closeFailed,
                   connectedRuns, failedRuns>>

\* SessionTab.disconnect returns (self.session = None) and _close_tab removes
\* the tab.
CloseEnd ==
    /\ guiPc = "close_end"
    /\ tabOpen' = FALSE
    /\ guiPc' = "idle"
    /\ guiCtx' = "none"
    /\ UNCHANGED <<guiFrame, client, clientObj, channel, chanObj, ptySize, serial_conn,
                   serObj, running, cancelled, guiQueue, statusVisible, fed, screenWriters,
                   discCalled, discOnLive, discQuiet, quietDiscs, closeFailed,
                   userCancelled, connectedRuns, failedRuns>>

\* An event loop that takes the event posted last.
Newest(q) == Len(q)

\* The posted event the interactive thread's event loop takes next: events
\* posted to one receiver are delivered in the order they were posted.
Oldest(q) == 1

Without(q, i) == SubSeq(q, 1, i - 1) \o SubSeq(q, i + 1, Len(q))

\* The event loop delivers a queued signal to its slot: _on_connected,
\* _on_connection_failed, or TerminalWidget._do_write_data; each of them
\* writes to the terminal in the interactive thread.
Deliver ==
    /\ guiPc = "idle" /\ guiQueue # <<>>
    /\ LET ev == guiQueue[Oldest(guiQueue)] IN
         /\ guiQueue' = Without(guiQueue, Oldest(guiQueue))
         /\ screenWriters' = screenWriters \cup {"gui"}
         /\ connectedRuns' = IF ev.t = "connected" THEN connectedRuns + 1
                             ELSE connectedRuns
         /\ failedRuns' = IF ev.t = "failed" THEN failedRuns + 1 ELSE failedRuns
         /\ statusVisible' = IF ev.t \in {"connected", "failed"} THEN FALSE
                             ELSE statusVisible
         /\ fed' = IF ev.t = "data" THEN Append(fed, ev.n) ELSE fed
    /\ UNCHANGED <<guiFrame, client, clientObj, channel, chanObj, ptySize, serial_conn,
                   serObj, running, cancelled, guiPc, guiCtx, tabOpen,
                   discCalled, discOnLive, discQuiet, quietDiscs, closeFailed,
                   userCancelled>>

\* What channel.resize_pty(width, height) leaves as the PTY's size: the new
\* size on an open channel; on a closed one it raises and nothing changes.
resize_pty(size) == IF chanObj = "open" THEN size ELSE ptySize

\* TerminalWidget.resizeEvent with a size that differs from the current one:
\* size_changed -> SessionTab._on_size_changed -> SSHSession.resize, which
\* does nothing without a channel and swallows what resize_pty raises.  A
\* SerialSession has no resize method.
Resize ==
    /\ guiPc = "idle" /\ tabOpen /\ resizes < MaxResizes
    /\ \E size \in Sizes \ {termSize} :
          /\ termSize' = size
          /\ ptySize' = IF kind = "ssh" /\ channel # "None"
                         THEN resize_pty(size) ELSE ptySize
    /\ resizes' = resizes + 1
    /\ UNCHANGED <<kind, cfg, sessions, connects, workerPc, connectResult,
                   readerPc, readerOnly, lastError, connErrs, readErrs,
                   stepsSinceDisc, cfgSize, sendVars, feedVars, termVars,
                   synVars, logVars, winVars, client,
                   clientObj, channel, chanObj, serial_conn, serObj, running,
                   cancelled, guiPc, guiCtx, guiQueue, statusVisible, tabOpen,
                   fed, screenWriters, discCalled, discOnLive, discQuiet,
                   quietDiscs, closeFailed, userCancelled, connectedRuns,
                   failedRuns>>

\* The handlers that open, cancel and close the connection and deliver the
\* queued signals.
Handlers ==
    \/ StartConnection \/ CancelClick \/ CloseTab \/ CancelSet \/ CloseDisc
    \/ DiscRunning \/ DiscChannel \/ DiscClient \/ DiscSerial \/ WaitReturn
    \/ CancelEnd \/ CloseEnd \/ Deliver

Gui == Handlers \/ Resize

\* ------------------------------------------------ a caller of Session.send

\* Session.send is an entry point any thread may call, in any state of the
\* session.  The tab calls it from _on_data_to_send; here its caller is a
\* thread of its own, so that the steps of send() interleave with every other
\* operation on the session, disconnect() included.

senderFrame == <<kind, cfg, client, clientObj, channel, chanObj, ptySize,
                 serial_conn, serObj, running, workerPc, connectResult,
                 readerPc, readerOnly, guiOnly, connErrs, stepsSinceDisc,
                 sizeVars, feedVars, termVars, synVars, logVars, winVars>>

\* An `except` clause that lets the AttributeError of a cleared field through.
SendCaughtTransportOnly(exc) == exc # "AttributeError"

\* `except Exception as e:` in send() catches whatever the write raises.
SendCaught(exc) == TRUE

\* How send() ends when the write raised `exc`: the except clause calls
\* on_error, or the exception leaves send().
SendFailed(exc) ==
    /\ sendFails' = sendFails + 1
    /\ IF SendCaught(exc)
       THEN /\ sendErrs' = sendErrs + 1
            /\ lastError' = "SendError"
            /\ write_data("caller", Event("err", 0))
            /\ sendOutcome' = "error"
       ELSE /\ sendOutcome' = "raised"
            /\ UNCHANGED <<sendErrs, lastError, postVars>>

\* send(data) is called on the tab's session.
SendEnter ==
    /\ sendPc = "idle" /\ sessions = 1 /\ sends < MaxSends
    /\ sendPc' = "s_if"
    /\ sends' = sends + 1
    /\ UNCHANGED <<senderFrame, sendErrs, sendFails, sendOutcome, postVars,
                   lastError>>

\* `if self.channel:` (SerialSession: self.serial_conn); nothing else happens
\* without a handle.
SendIf ==
    /\ sendPc = "s_if"
    /\ IF Handle # "None"
       THEN sendPc' = "s_call" /\ UNCHANGED sendOutcome
       ELSE sendPc' = "idle" /\ sendOutcome' = "noop"
    /\ UNCHANGED <<senderFrame, sends, sendErrs, sendFails, postVars, lastError>>

\* `self.channel.send(data)` inside the try: the field is read again, and the
\* write goes through, or raises on a failing or closed transport.
SendCall ==
    /\ sendPc = "s_call"
    /\ \/ /\ Handle = "None"
          /\ SendFailed("AttributeError")
       \/ /\ Handle = "obj" /\ HandleObj = "open"
          /\ sendOutcome' = "sent"
          /\ UNCHANGED <<sendErrs, sendFails, lastError, postVars>>
       \/ /\ Handle = "obj"
          /\ SendFailed("Transport")
    /\ sendPc' = "idle"
    /\ UNCHANGED <<senderFrame, sends>>

Sender == SendEnter \/ SendIf \/ SendCall

\* ---------------------------------------------------------- the terminal

\* Code points of the characters the terminal is fed in this model.
LF == 10

ESC == 27

SPACE == 32

REPLACEMENT == 65533

\* The inbound bytes of the model: LF, ESC, '2', 'C', '[', 'a', and the two
\* bytes 0xC3 0xA9 of the UTF-8 encoding of U+00E9.
Bytes == {10, 27, 50, 67, 91, 97, 195, 169}

IsLead2(b) == 194 <= b /\ b <= 223

IsCont(b) == 128 <= b /\ b <= 191

\* data.decode('utf-8', errors='replace') on bytes below 0xE0: an ASCII byte
\* is itself, a two-byte sequence is its code point, and a lead byte without
\* its continuation byte (also at the end of the data) or a continuation byte
\* without a lead becomes U+FFFD.
RECURSIVE Decode(_)
Decode(bs) ==
    IF bs = <<>> THEN <<>>
    ELSE LET b == Head(bs) IN
         IF b < 128 THEN <<b>> \o Decode(Tail(bs))
         ELSE IF IsLead2(b) /\ Len(bs) >= 2 /\ IsCont(bs[2])
         THEN <<(b - 192) * 64 + (bs[2] - 128)>> \o Decode(SubSeq(bs, 3, Len(bs)))
         ELSE <<REPLACEMENT>> \o Decode(Tail(bs))

Min(a, b) == IF a < b THEN a ELSE b

Max(a, b) == IF a > b THEN a ELSE b

\* A row of the screen holds only the cells that were written: pyte keeps a
\* row as a dictionary from column to character whose missing cells read as
\* blank without being stored.
EmptyLine == [c \in {} |-> SPACE]

\* screen.buffer is a defaultdict from row number to row: only the rows that
\* were touched exist in it.
EmptyBuffer == [r \in {} |-> EmptyLine]

\* d[k] of a defaultdict of rows (the row is created if it is missing).
Row(buffer, y) == IF y \in DOMAIN buffer THEN buffer[y] ELSE EmptyLine

\* d[k] = v
SetItem(d, k, v) == [i \in (DOMAIN d) \cup {k} |-> IF i = k THEN v ELSE d[i]]

\* d.pop(k, None) for every k of ks
Pop(d, ks) == [i \in (DOMAIN d) \ ks |-> d[i]]

\* The character a cell of a row shows.
CellOf(line, c) == IF c \in DOMAIN line THEN line[c] ELSE SPACE

\* pyte's modes after Screen.reset().
DefaultModes == {"DECAWM", "DECTCEM"}

\* TerminalWidget.__init__: pyte.HistoryScreen(cols, rows, history) with LNM
\* set, its pyte.Stream in the ground state, scroll_offset 0.  The field
\* pushed counts the rows appended to history.top since then.
NewTerminal ==
    [lines |-> Rows, columns |-> Cols, buffer |-> EmptyBuffer, x |-> 0, y |-> 0,
     mode |-> DefaultModes \cup {"LNM"}, history |-> <<>>, pushed |-> 0,
     st |-> "ground", cur |-> -1, params |-> <<>>, scroll_offset |-> 0]

\* A history that keeps every row ever appended.
PushHistoryUnbounded(h, row) == Append(h, row)

\* history.top is a deque(maxlen=history): appending to a full one drops the
\* oldest row.
PushHistory(h, row) ==
    IF Len(h) < HistoryCap THEN Append(h, row) ELSE Append(Tail(h), row)

\* Screen.carriage_return
CarriageReturn(t) == [t EXCEPT !.x = 0]

\* HistoryScreen.index: at the bottom row the top row goes to the history,
\* every row takes the place of the one above it and the bottom row is
\* removed; elsewhere the cursor goes down, kept inside the grid.
Index(t) ==
    LET bottom == t.lines - 1 IN
    IF t.y = bottom
    THEN [t EXCEPT !.history = PushHistory(t.history, Row(t.buffer, 0)),
                   !.pushed = t.pushed + 1,
                   !.buffer = [r \in (0..(bottom - 1)) \cup
                                     {k \in DOMAIN t.buffer : k > bottom} |->
                                  IF r < bottom THEN Row(t.buffer, r + 1)
                                  ELSE t.buffer[r]]]
    ELSE [t EXCEPT !.y = Min(Max(0, t.y + 1), bottom)]

\* Screen.linefeed: index, and a carriage return when LNM is set.
LineFeed(t) ==
    IF "LNM" \in t.mode THEN CarriageReturn(Index(t)) ELSE Index(t)

\* Screen.draw: a cursor just past the last column wraps first (DECAWM) or
\* steps back; the character is stored at the cursor.
Draw(t, ch) ==
    LET w == IF t.x = t.columns
             THEN IF "DECAWM" \in t.mode THEN LineFeed(CarriageReturn(t))
                  ELSE [t EXCEPT !.x = t.x - 1]
             ELSE t
    IN [w EXCEPT !.buffer = SetItem(w.buffer, w.y,
                                    SetItem(Row(w.buffer, w.y), w.x, ch)),
                 !.x = Min(w.x + 1, w.columns)]

\* Screen.cursor_forward(count), then ensure_hbounds.
CursorForward(t, n) ==
    LET to == t.x + (IF n = 0 THEN 1 ELSE n) IN
    [t EXCEPT !.x = Min(Max(0, to), t.columns - 1)]

\* The loop of Screen.delete_lines(count) with the cursor on row 0 and no
\* margins, from row y on.
RECURSIVE DeleteLoop(_, _, _, _)
DeleteLoop(buffer, y, count, bottom) ==
    IF y > bottom THEN buffer
    ELSE DeleteLoop(
             IF y + count <= bottom
             THEN IF (y + count) \in DOMAIN buffer
                  THEN SetItem(Pop(buffer, {y + count}), y, buffer[y + count])
                  ELSE buffer
             ELSE Pop(buffer, {y}),
             y + 1, count, bottom)

\* Screen.resize(lines, columns): fewer lines drop rows from the top (the
\* cursor is saved and restored around it, bounded by the old size), fewer
\* columns drop the cells to the right; then the new size is set.
ScreenResize(t, lines, columns) ==
    IF lines = t.lines /\ columns = t.columns THEN t
    ELSE LET t1 == IF lines < t.lines
                   THEN [t EXCEPT
                           !.buffer = DeleteLoop(t.buffer, 0, t.lines - lines,
                                                 t.lines - 1),
                           !.x = Min(Max(0, t.x), t.columns - 1)]
                   ELSE t
             t2 == IF columns < t.columns
                   THEN [t1 EXCEPT
                           !.buffer = [r \in DOMAIN t1.buffer |->
                                          Pop(t1.buffer[r],
                                              columns..(t.columns - 1))]]
                   ELSE t1
         IN [t2 EXCEPT !.lines = lines, !.columns = columns]

\* HistoryScreen.reset(): an empty buffer, the cursor at the origin, pyte's
\* default modes, an empty history.  The parser and the view are not part of
\* the screen.
ScreenReset(t) ==
    [t EXCEPT !.buffer = EmptyBuffer, !.x = 0, !.y = 0, !.mode = DefaultModes,
              !.history = <<>>]

IsDigit(ch) == 48 <= ch /\ ch <= 57

\* One character through pyte.Stream's parser, whose state (ground, after
\* ESC, inside a CSI sequence with its parameters) lasts across feed() calls.
FeedChar(t, ch) ==
    IF t.st = "ground"
    THEN IF ch = ESC THEN [t EXCEPT !.st = "escape"]
         ELSE IF ch = LF THEN LineFeed(t)
         ELSE Draw(t, ch)
    ELSE IF t.st = "escape"
    THEN IF ch = 91 THEN [t EXCEPT !.st = "csi", !.cur = -1, !.params = <<>>]
         ELSE [t EXCEPT !.st = "ground"]
    ELSE IF ch = LF THEN LineFeed(t)
         ELSE IF IsDigit(ch)
         THEN [t EXCEPT !.cur = (IF t.cur = -1 THEN 0 ELSE t.cur * 10) + (ch - 48)]
         ELSE LET ps == Append(t.params, IF t.cur = -1 THEN 0 ELSE t.cur)
                  g == [t EXCEPT !.st = "ground", !.cur = -1, !.params = <<>>]
              IN IF ch \in {67, 97} THEN CursorForward(g, ps[1]) ELSE g

\* pyte.Stream.feed(text)
RECURSIVE Feed(_, _)
Feed(t, text) ==
    IF text = <<>> THEN t ELSE Feed(FeedChar(t, Head(text)), Tail(text))

\* How _do_write_data turns the bytes of one call into text.
DecodeChunk(data) == Decode(data)

\* TerminalWidget._do_write_data: decode this call's bytes, feed the text,
\* snap the view to the bottom.
DoWriteData(t, data) ==
    [Feed(t, DecodeChunk(data)) EXCEPT !.scroll_offset = 0]

\* The cells a row shows on a grid of the terminal's width.
Shown(t, line) == [c \in 0..(t.columns - 1) |-> CellOf(line, c)]

\* The screen state a terminal shows: grid, cursor and history.
Screen(t) ==
    [buffer |-> [r \in 0..(t.lines - 1) |-> Shown(t, Row(t.buffer, r))],
     x |-> t.x, y |-> t.y,
     history |-> [i \in 1..Len(t.history) |-> Shown(t, t.history[i])]]

\* [0-9;] of ANSI_ESCAPE
IsParam(ch) == IsDigit(ch) \/ ch = 59

\* [a-zA-Z] of ANSI_ESCAPE
IsLetter(ch) == (65 <= ch /\ ch <= 90) \/ (97 <= ch /\ ch <= 122)

\* [0-9;]* from position i: the first position it does not take.
RECURSIVE ParamsEnd(_, _)
ParamsEnd(text, i) ==
    IF i <= Len(text) /\ IsParam(text[i]) THEN ParamsEnd(text, i + 1) ELSE i

\* .*? from position i up to the first occurrence of the terminator, '.'
\* matching no line feed: the position of the terminator's last character,
\* 0 if there is none.
RECURSIVE LazyUntil(_, _, _)
LazyUntil(text, i, terminator) ==
    IF i + Len(terminator) - 1 > Len(text) THEN 0
    ELSE IF SubSeq(text, i, i + Len(terminator) - 1) = terminator
    THEN i + Len(terminator) - 1
    ELSE IF text[i] = LF THEN 0
    ELSE LazyUntil(text, i + 1, terminator)

\* SessionLogger.ANSI_ESCAPE matched at position i: the position of the last
\* character of the match, 0 if it does not match there.  The alternatives
\* are tried in the order of the pattern: CSI with its final letter, OSC up
\* to BEL, a string sequence up to ESC \, ESC and one more character.
MatchEnd(text, i) ==
    LET n == Len(text)
        next == IF i + 1 <= n THEN text[i + 1] ELSE -1
        p == ParamsEnd(text, i + 2)
        csi == IF next = 91 /\ p <= n /\ IsLetter(text[p]) THEN p ELSE 0
        osc == IF next = 93 THEN LazyUntil(text, i + 2, <<7>>) ELSE 0
        str == IF next \in {80, 88, 94, 95}
               THEN LazyUntil(text, i + 2, <<ESC, 92>>) ELSE 0
        two == IF next # -1 /\ next # LF THEN i + 1 ELSE 0
    IN IF text[i] # ESC THEN 0
       ELSE IF csi # 0 THEN csi
       ELSE IF osc # 0 THEN osc
       ELSE IF str # 0 THEN str
       ELSE two

\* ANSI_ESCAPE.sub('', text) from position i on.
RECURSIVE StripFrom(_, _)
StripFrom(text, i) ==
    IF i > Len(text) THEN <<>>
    ELSE LET e == MatchEnd(text, i) IN
         IF e = 0 THEN <<text[i]>> \o StripFrom(text, i + 1)
         ELSE StripFrom(text, e + 1)

StripAnsi(text) == StripFrom(text, 1)

\* SessionLogger.write(data): what one call appends to the log file.
LoggerWrite(data) == StripAnsi(Decode(data))

ByteSeqs == UNION {[1..n -> Bytes] : n \in 1..MaxLen}

\* Every way of cutting a sequence into consecutive non-empty chunks.
RECURSIVE Splits(_)
Splits(bs) ==
    IF bs = <<>> THEN {<<>>}
    ELSE UNION {{<<SubSeq(bs, 1, k)>> \o rest :
                    rest \in Splits(SubSeq(bs, k + 1, Len(bs)))} : k \in 1..Len(bs)}

\* No decoder check is in progress.
FeedParked ==
    /\ input = <<>> /\ pending = <<>>
    /\ termC = NewTerminal /\ termW = NewTerminal
    /\ wholeFed = FALSE
    /\ logging = FALSE /\ logText = <<>>

\* Two fresh terminals, an inbound byte sequence and one way of chunking it,
\* with or without a session log.
InitFeed ==
    /\ input \in ByteSeqs
    /\ pending \in Splits(input)
    /\ termC = NewTerminal /\ termW = NewTerminal
    /\ wholeFed = FALSE
    /\ logging \in BOOLEAN /\ logText = <<>>

\* SessionTab._on_data_received with the next chunk: write_data ->
\* _do_write_data, and logger.write when the tab has an active logger.
WriteChunk ==
    /\ pending # <<>>
    /\ termC' = DoWriteData(termC, Head(pending))
    /\ logText' = IF logging THEN logText \o LoggerWrite(Head(pending))
                  ELSE logText
    /\ pending' = Tail(pending)
    /\ UNCHANGED <<sessVars, termVars, synVars, logVars, winVars, input, termW, wholeFed, logging>>

\* write_data -> _do_write_data with the whole sequence in a single call.
WriteWhole ==
    /\ ~wholeFed
    /\ termW' = DoWriteData(termW, input)
    /\ wholeFed' = TRUE
    /\ UNCHANGED <<sessVars, termVars, synVars, logVars, winVars, input, pending, termC, logging,
                   logText>>

\* ------------------------------------------------------ the terminal widget

\* selection_start / selection_end when nothing is selected (None).
NoCell == <<>>

\* The inbound data of one write_data call in the widget model: a line feed,
\* a letter, and the control sequence CSI C (cursor forward).
Inbound == {<<LF>>, <<97>>, <<ESC, 91, 67>>}

\* The lines one wheel step scrolls the view.
WheelLines == 3

\* len(d) of a dictionary
DictLen(d) == Cardinality(DOMAIN d)

\* self.screen.buffer[row] read by the widget: a missing row is created.
Touch(t, row) ==
    [t EXCEPT !.buffer = SetItem(t.buffer, row, Row(t.buffer, row))]

\* TerminalWidget._get_line_text(line): the characters of the columns
\* 0 .. min(cols, len(line)) - 1, len(line) being the number of stored cells.
GetLineText(t, line) ==
    [i \in 1..Min(t.columns, DictLen(line)) |-> CellOf(line, i - 1)]

\* text[a:b] of Python, 0 <= a.
Slice(text, a, b) == SubSeq(text, a + 1, Min(b, Len(text)))

\* str.rstrip()
RECURSIVE RStrip(_)
RStrip(text) ==
    IF text # <<>> /\ text[Len(text)] = SPACE
    THEN RStrip(SubSeq(text, 1, Len(text) - 1))
    ELSE text

\* '\n'.join(line.rstrip() for line in lines)
RECURSIVE JoinLines(_)
JoinLines(lines) ==
    IF lines = <<>> THEN <<>>
    ELSE IF Len(lines) = 1 THEN RStrip(lines[1])
    ELSE RStrip(lines[1]) \o <<LF>> \o JoinLines(Tail(lines))

\* The normalisation in _get_selected_text: the earlier position first.
Normalized(a, b) ==
    IF a[2] > b[2] \/ (a[2] = b[2] /\ a[1] > b[1]) THEN <<b, a>> ELSE <<a, b>>

\* The loop of _get_selected_text from row on: the pieces of the rows that
\* pass "row < len(self.screen.buffer)", and the terminal after the reads.
RECURSIVE SelectedRows(_, _, _, _)
SelectedRows(t, row, s, e) ==
    IF row > e[2] THEN [lines |-> <<>>, term |-> t]
    ELSE IF row < DictLen(t.buffer)
    THEN LET t1 == Touch(t, row)
             line_text == GetLineText(t1, t1.buffer[row])
             piece == IF row = s[2] /\ row = e[2] THEN Slice(line_text, s[1], e[1])
                      ELSE IF row = s[2] THEN Slice(line_text, s[1], Len(line_text))
                      ELSE IF row = e[2] THEN Slice(line_text, 0, e[1])
                      ELSE line_text
             rest == SelectedRows(t1, row + 1, s, e)
         IN [lines |-> <<piece>> \o rest.lines, term |-> rest.term]
    ELSE SelectedRows(t, row + 1, s, e)

\* TerminalWidget._get_selected_text with the given selection ends: the text
\* it returns and the terminal it leaves.
GetSelectedText(t, a, b) ==
    IF a = NoCell \/ b = NoCell THEN [text |-> <<>>, term |-> t]
    ELSE LET n == Normalized(a, b) IN
         IF n[1] = n[2] THEN [text |-> <<>>, term |-> t]
         ELSE LET r == SelectedRows(t, n[1][2], n[1], n[2])
              IN [text |-> JoinLines(r.lines), term |-> r.term]

\* _screen_to_cell: the cells a mouse position can be converted to.
Cells(t) == (0..(t.columns - 1)) \X (0..(t.lines - 1))

\* _is_word_char on the characters of the model: str.isalnum() or one of
\* '-_./:'.
IsWordChar(ch) ==
    IsDigit(ch) \/ IsLetter(ch) \/ ch = 233 \/ ch \in {45, 95, 46, 47, 58}

\* "Expand left" of mouseDoubleClickEvent.
RECURSIVE ExpandLeft(_, _)
ExpandLeft(text, col) ==
    IF col > 0 /\ IsWordChar(IF col - 1 < Len(text) THEN text[col] ELSE SPACE)
    THEN ExpandLeft(text, col - 1) ELSE col

\* "Expand right" of mouseDoubleClickEvent.
RECURSIVE ExpandRight(_, _)
ExpandRight(text, col) ==
    IF col < Len(text) /\ IsWordChar(text[col + 1])
    THEN ExpandRight(text, col + 1) ELSE col

\* The rows of paintEvent from row on: every buffer row it reads is created
\* if it is missing.
RECURSIVE PaintRows(_, _)
PaintRows(t, row) ==
    IF row >= t.lines THEN t
    ELSE LET total == Len(t.history)
             idx == IF t.scroll_offset > 0
                    THEN (total - t.scroll_offset + row) - total
                    ELSE row
         IN PaintRows(IF idx >= 0 /\ idx < DictLen(t.buffer)
                      THEN Touch(t, idx) ELSE t,
                      row + 1)

\* paintEvent: the rows, then the cursor when it is drawn.
PaintEvent(t, cursorDrawn) ==
    LET p == PaintRows(t, 0) IN
    IF cursorDrawn /\ p.scroll_offset = 0 /\ p.y < DictLen(p.buffer)
    THEN Touch(p, p.y) ELSE p

\* No widget check is in progress.
TermParked ==
    /\ term = NewTerminal
    /\ selection_start = NoCell /\ selection_end = NoCell
    /\ is_selecting = FALSE
    /\ events = 0

termFrame == <<sessVars, feedVars, synVars, logVars, winVars>>

\* write_data -> _do_write_data
TermFeed ==
    /\ events < MaxEvents
    /\ \E data \in Inbound : term' = DoWriteData(term, data)
    /\ events' = events + 1
    /\ UNCHANGED <<termFrame, selection_start, selection_end, is_selecting>>

\* mousePressEvent with the left button
MousePress ==
    /\ events < MaxEvents
    /\ ~is_selecting
    /\ \E pos \in Cells(term) :
          /\ selection_start' = pos
          /\ selection_end' = pos
    /\ is_selecting' = TRUE
    /\ events' = events + 1
    /\ UNCHANGED <<termFrame, term>>

\* mouseMoveEvent with the left button held
MouseMove ==
    /\ events < MaxEvents
    /\ is_selecting
    /\ \E pos \in Cells(term) : selection_end' = pos
    /\ events' = events + 1
    /\ UNCHANGED <<termFrame, term, selection_start, is_selecting>>

\* mouseReleaseEvent of the left button: the selection ends and is copied.
MouseRelease ==
    /\ events < MaxEvents
    /\ is_selecting
    /\ is_selecting' = FALSE
    /\ \E pos \in Cells(term) :
          /\ selection_end' = pos
          /\ term' = GetSelectedText(term, selection_start, pos).term
    /\ events' = events + 1
    /\ UNCHANGED <<termFrame, selection_start>>

\* mouseDoubleClickEvent, which follows a click at the same place: the word
\* under the pointer is selected and copied.
MouseDoubleClick ==
    /\ events < MaxEvents
    /\ ~is_selecting
    /\ selection_start # NoCell /\ selection_start = selection_end
    /\ selection_start \in Cells(term)
    /\ LET col == selection_start[1]
           row == selection_start[2]
       IN IF row < DictLen(term.buffer)
          THEN LET t1 == Touch(term, row)
                   line_text == GetLineText(t1, t1.buffer[row])
                   start == <<ExpandLeft(line_text, col), row>>
                   end == <<ExpandRight(line_text, col), row>>
               IN /\ selection_start' = start
                  /\ selection_end' = end
                  /\ term' = GetSelectedText(t1, start, end).term
          ELSE UNCHANGED <<term, selection_start, selection_end>>
    /\ events' = events + 1
    /\ UNCHANGED <<termFrame, is_selecting>>

\* _scroll_up(lines)
ScrollUp(t, lines) ==
    [t EXCEPT !.scroll_offset = Min(t.scroll_offset + lines, Len(t.history))]

\* _scroll_down(lines)
ScrollDown(t, lines) ==
    [t EXCEPT !.scroll_offset = Max(0, t.scroll_offset - lines)]

\* wheelEvent
WheelEvent ==
    /\ events < MaxEvents
    /\ \E up \in BOOLEAN :
          term' = IF up THEN ScrollUp(term, WheelLines)
                  ELSE ScrollDown(term, WheelLines)
    /\ events' = events + 1
    /\ UNCHANGED <<termFrame, selection_start, selection_end, is_selecting>>

\* resizeEvent with a new size: cols and rows are set and the screen resized.
ResizeEvent ==
    /\ events < MaxEvents
    /\ \E size \in Sizes \ {<<term.columns, term.lines>>} :
          term' = ScreenResize(term, size[2], size[1])
    /\ events' = events + 1
    /\ UNCHANGED <<termFrame, selection_start, selection_end, is_selecting>>

\* clear_terminal
ClearTerminal ==
    /\ events < MaxEvents
    /\ term' = ScreenReset(term)
    /\ events' = events + 1
    /\ UNCHANGED <<termFrame, selection_start, selection_end, is_selecting>>

\* paintEvent
Paint ==
    /\ \E cursorDrawn \in BOOLEAN : term' = PaintEvent(term, cursorDrawn)
    /\ UNCHANGED <<termFrame, selection_start, selection_end, is_selecting,
                   events>>

\* -------------------------------------------------------- syntax overlay

\* Text is a sequence of code points; a word of the lexicon is written as the
\* code points of its characters, with the word itself in the comment.

\* SYNTAX_RULES['keyword']['words'], in the order of the source.
keyword_words ==
    <<
      <<115, 104, 111, 119>>,  \* show
      <<100, 105, 115, 112, 108, 97, 121>>,  \* display
      <<99, 111, 110, 102, 105, 103, 117, 114, 101>>,  \* configure
      <<99, 111, 110, 102, 105, 103>>,  \* config
      <<116, 101, 114, 109, 105, 110, 97, 108>>,  \* terminal
      <<105, 110, 116, 101, 114, 102, 97, 99, 101>>,  \* interface
      <<114, 111, 117, 116, 101, 114>>,  \* router
      <<115, 119, 105, 116, 99, 104>>,  \* switch
      <<118, 108, 97, 110>>,  \* vlan
      <<115, 112, 97, 110, 110, 105, 110, 103, 45, 116, 114, 101, 101>>,  \* spanning-tree
      <<115, 116, 112>>,  \* stp
      <<101, 110, 97, 98, 108, 101>>,  \* enable
      <<100, 105, 115, 97, 98, 108, 101>>,  \* disable
      <<115, 104, 117, 116, 100, 111, 119, 110>>,  \* shutdown
      <<110, 111>>,  \* no
      <<101, 120, 105, 116>>,  \* exit
      <<101, 110, 100>>,  \* end
      <<113, 117, 105, 116>>,  \* quit
      <<119, 114, 105, 116, 101>>,  \* write
      <<99, 111, 112, 121>>,  \* copy
      <<115, 97, 118, 101>>,  \* save
      <<99, 111, 109, 109, 105, 116>>,  \* commit
      <<114, 111, 108, 108, 98, 97, 99, 107>>,  \* rollback
      <<112, 105, 110, 103>>,  \* ping
      <<116, 114, 97, 99, 101, 114, 111, 117, 116, 101>>,  \* traceroute
      <<116, 114, 97, 99, 101, 114, 116>>,  \* tracert
      <<116, 101, 108, 110, 101, 116>>,  \* telnet
      <<115, 115, 104>>,  \* ssh
      <<100, 101, 98, 117, 103>>,  \* debug
      <<117, 110, 100, 101, 98, 117, 103>>,  \* undebug
      <<108, 111, 103, 103, 105, 110, 103>>,  \* logging
      <<116, 101, 114, 109, 105, 110, 97, 108>>,  \* terminal
      <<108, 101, 110, 103, 116, 104>>,  \* length
      <<119, 105, 100, 116, 104>>  \* width
    >>

\* SYNTAX_RULES['network']['words'], in the order of the source.
network_words ==
    <<
      <<105, 112>>,  \* ip
      <<105, 112, 118, 54>>,  \* ipv6
      <<97, 100, 100, 114, 101, 115, 115>>,  \* address
      <<114, 111, 117, 116, 101>>,  \* route
      <<114, 111, 117, 116, 105, 110, 103>>,  \* routing
      <<115, 116, 97, 116, 105, 99>>,  \* static
      <<111, 115, 112, 102>>,  \* ospf
      <<101, 105, 103, 114, 112>>,  \* eigrp
      <<98, 103, 112>>,  \* bgp
      <<114, 105, 112>>,  \* rip
      <<105, 115, 105, 115>>,  \* isis
      <<109, 112, 108, 115>>,  \* mpls
      <<118, 112, 110>>,  \* vpn
      <<118, 114, 102>>,  \* vrf
      <<97, 99, 108>>,  \* acl
      <<97, 99, 99, 101, 115, 115, 45, 108, 105, 115, 116>>,  \* access-list
      <<112, 114, 101, 102, 105, 120, 45, 108, 105, 115, 116>>,  \* prefix-list
      <<114, 111, 117, 116, 101, 45, 109, 97, 112>>,  \* route-map
      <<110, 97, 116>>,  \* nat
      <<112, 97, 116>>,  \* pat
      <<100, 104, 99, 112>>,  \* dhcp
      <<100, 110, 115>>,  \* dns
      <<110, 116, 112>>,  \* ntp
      <<115, 110, 109, 112>>,  \* snmp
      <<115, 121, 115, 108, 111, 103>>,  \* syslog
      <<97, 114, 112>>,  \* arp
      <<109, 97, 99>>,  \* mac
      <<109, 97, 99, 45, 97, 100, 100, 114, 101, 115, 115>>,  \* mac-address
      <<110, 101, 105, 103, 104, 98, 111, 114>>,  \* neighbor
      <<97, 100, 106, 97, 99, 101, 110, 99, 121>>,  \* adjacency
      <<110, 101, 116, 119, 111, 114, 107>>,  \* network
      <<97, 114, 101, 97>>,  \* area
      <<115, 117, 98, 110, 101, 116>>,  \* subnet
      <<109, 97, 115, 107>>,  \* mask
      <<103, 97, 116, 101, 119, 97, 121>>,  \* gateway
      <<100, 101, 102, 97, 117, 108, 116>>  \* default
    >>

\* SYNTAX_RULES['interface']['words'], in the order of the source.
interface_words ==
    <<
      <<101, 116, 104, 101, 114, 110, 101, 116>>,  \* ethernet
      <<102, 97, 115, 116, 101, 116, 104, 101, 114, 110, 101, 116>>,  \* fastethernet
      <<103, 105, 103, 97, 98, 105, 116, 101, 116, 104, 101, 114, 110, 101, 116>>,  \* gigabitethernet
      <<116, 101, 110, 103, 105, 103, 97, 98, 105, 116, 101, 116, 104, 101, 114, 110, 101, 116>>,  \* tengigabitethernet
      <<102, 97>>,  \* fa
      <<103, 105>>,  \* gi
      <<116, 101>>,  \* te
      <<101, 116, 104>>,  \* eth
      <<103, 101>>,  \* ge
      <<120, 101>>,  \* xe
      <<102, 101>>,  \* fe
      <<115, 101, 114, 105, 97, 108>>,  \* serial
      <<108, 111, 111, 112, 98, 97, 99, 107>>,  \* loopback
      <<116, 117, 110, 110, 101, 108>>,  \* tunnel
      <<118, 108, 97, 110, 105, 102>>,  \* vlanif
      <<112, 111, 114, 116, 45, 99, 104, 97, 110, 110, 101, 108>>,  \* port-channel
      <<98, 114, 105, 100, 103, 101, 45, 97, 103, 103, 114, 101, 103, 97, 116, 105, 111, 110>>,  \* bridge-aggregation
      <<101, 116, 104, 45, 116, 114, 117, 110, 107>>,  \* eth-trunk
      <<98, 117, 110, 100, 108, 101>>,  \* bundle
      <<109, 97, 110, 97, 103, 101, 109, 101, 110, 116>>,  \* management
      <<109, 103, 109, 116>>,  \* mgmt
      <<99, 111, 110, 115, 111, 108, 101>>,  \* console
      <<97, 117, 120>>,  \* aux
      <<118, 116, 121>>  \* vty
    >>

\* SYNTAX_RULES['status']['words'], in the order of the source.
status_words ==
    <<
      <<117, 112>>,  \* up
      <<100, 111, 119, 110>>,  \* down
      <<97, 100, 109, 105, 110, 105, 115, 116, 114, 97, 116, 105, 118, 101, 108, 121>>,  \* administratively
      <<101, 114, 114, 45, 100, 105, 115, 97, 98, 108, 101, 100>>,  \* err-disabled
      <<99, 111, 110, 110, 101, 99, 116, 101, 100>>,  \* connected
      <<110, 111, 116, 99, 111, 110, 110, 101, 99, 116>>,  \* notconnect
      <<100, 105, 115, 97, 98, 108, 101, 100>>,  \* disabled
      <<98, 108, 111, 99, 107, 101, 100>>,  \* blocked
      <<102, 111, 114, 119, 97, 114, 100, 105, 110, 103>>,  \* forwarding
      <<101, 115, 116, 97, 98, 108, 105, 115, 104, 101, 100>>,  \* established
      <<97, 99, 116, 105, 118, 101>>,  \* active
      <<112, 97, 115, 115, 105, 118, 101>>,  \* passive
      <<105, 100, 108, 101>>,  \* idle
      <<102, 117, 108, 108>>,  \* full
      <<104, 97, 108, 102>>,  \* half
      <<101, 114, 114, 111, 114>>,  \* error
      <<101, 114, 114, 111, 114, 115>>,  \* errors
      <<100, 114, 111, 112, 115>>,  \* drops
      <<100, 105, 115, 99, 97, 114, 100, 115>>,  \* discards
      <<99, 111, 108, 108, 105, 115, 105, 111, 110>>  \* collision
    >>

\* SYNTAX_RULES['protocol']['words'], in the order of the source.
protocol_words ==
    <<
      <<116, 99, 112>>,  \* tcp
      <<117, 100, 112>>,  \* udp
      <<105, 99, 109, 112>>,  \* icmp
      <<104, 116, 116, 112>>,  \* http
      <<104, 116, 116, 112, 115>>,  \* https
      <<102, 116, 112>>,  \* ftp
      <<116, 102, 116, 112>>,  \* tftp
      <<115, 109, 116, 112>>,  \* smtp
      <<112, 111, 112, 51>>,  \* pop3
      <<105, 109, 97, 112>>,  \* imap
      <<108, 100, 97, 112>>,  \* ldap
      <<114, 97, 100, 105, 117, 115>>,  \* radius
      <<116, 97, 99, 97, 99, 115>>,  \* tacacs
      <<100, 111, 116, 49, 113>>,  \* dot1q
      <<56, 48, 50, 46, 49, 113>>,  \* 802.1q
      <<108, 97, 99, 112>>,  \* lacp
      <<112, 97, 103, 112>>,  \* pagp
      <<108, 108, 100, 112>>,  \* lldp
      <<99, 100, 112>>,  \* cdp
      <<115, 116, 112>>,  \* stp
      <<114, 115, 116, 112>>,  \* rstp
      <<109, 115, 116, 112>>,  \* mstp
      <<112, 118, 115, 116>>,  \* pvst
      <<104, 115, 114, 112>>,  \* hsrp
      <<118, 114, 114, 112>>,  \* vrrp
      <<103, 108, 98, 112>>  \* glbp
    >>

\* SYNTAX_RULES: the categories in the order of the dictionary, each with its
\* color and its words.
SYNTAX_RULES ==
    <<[category |-> "keyword", color |-> "#89b4fa", words |-> keyword_words],
      [category |-> "network", color |-> "#a6e3a1", words |-> network_words],
      [category |-> "interface", color |-> "#f9e2af", words |-> interface_words],
      [category |-> "status", color |-> "#f38ba8", words |-> status_words],
      [category |-> "protocol", color |-> "#cba6f7", words |-> protocol_words]>>

\* IP_COLOR
IP_COLOR == "#94e2d5"

\* \w of a str pattern, on the characters of the model.
IsReWord(ch) == IsLetter(ch) \/ IsDigit(ch) \/ ch = 95

\* \b at offset p of the text (between the characters p - 1 and p, counted
\* from 0).
Boundary(text, p) ==
    (p > 0 /\ IsReWord(text[p])) # (p < Len(text) /\ IsReWord(text[p + 1]))

\* Case folding of re.IGNORECASE on the characters of the model.
Lower(ch) == IF 65 <= ch /\ ch <= 90 THEN ch + 32 ELSE ch

\* The escaped word matches the text at offset p, ignoring case.
LiteralAt(text, p, word) ==
    /\ p + Len(word) <= Len(text)
    /\ \A i \in 1..Len(word) : Lower(text[p + i]) = Lower(word[i])

\* \b(w1|w2|...)\b tried at offset p: the alternatives are tried in order and
\* the first that matches with a boundary after it is taken.  The end of the
\* match, -1 if there is none.
WordMatchEnd(text, p, words) ==
    LET ok == {i \in 1..Len(words) :
                  /\ LiteralAt(text, p, words[i])
                  /\ Boundary(text, p + Len(words[i]))}
    IN IF ~Boundary(text, p) \/ ok = {} THEN -1
       ELSE p + Len(words[CHOOSE i \in ok : \A j \in ok : i <= j])

\* pattern.finditer(text) of a category's pattern from offset p on: the
\* spans <<start, end>> of the matches, found left to right, each search
\* starting where the last match ended.
RECURSIVE WordFindIter(_, _, _)
WordFindIter(text, p, words) ==
    IF p >= Len(text) THEN {}
    ELSE LET e == WordMatchEnd(text, p, words) IN
         IF e = -1 THEN WordFindIter(text, p + 1, words)
         ELSE {<<p, e>>} \cup WordFindIter(text, e, words)

\* The number of digits at offset p.
RECURSIVE DigitRun(_, _)
DigitRun(text, p) ==
    IF p < Len(text) /\ IsDigit(text[p + 1]) THEN 1 + DigitRun(text, p + 1) ELSE 0

\* \d{1,3} followed by something that is not a digit: the offset after it,
\* -1 if it does not match at p.
Octet(text, p) ==
    IF p = -1 THEN -1
    ELSE LET k == DigitRun(text, p) IN IF 1 <= k /\ k <= 3 THEN p + k ELSE -1

\* \. at offset p: the offset after it, -1 if it does not match.
Dot(text, p) ==
    IF p # -1 /\ p < Len(text) /\ text[p + 1] = 46 THEN p + 1 ELSE -1

\* IP_PATTERN tried at offset p: four groups of one to three digits with
\* dots between them, then /dd or /d if a boundary follows it, otherwise
\* nothing, with a boundary before and after.  The end of the match, -1 if
\* there is none.
IpMatchEnd(text, p) ==
    LET q == Octet(text, Dot(text, Octet(text, Dot(text,
                 Octet(text, Dot(text, Octet(text, p)))))))
        k == IF q # -1 /\ q < Len(text) /\ text[q + 1] = 47
             THEN DigitRun(text, q + 1) ELSE 0
    IN IF ~Boundary(text, p) \/ q = -1 THEN -1
       ELSE IF k >= 2 /\ Boundary(text, q + 3) THEN q + 3
       ELSE IF k >= 1 /\ Boundary(text, q + 2) THEN q + 2
       ELSE IF Boundary(text, q) THEN q
       ELSE -1

\* IP_PATTERN.finditer(text) from offset p on.
RECURSIVE IpFindIter(_, _)
IpFindIter(text, p) ==
    IF p >= Len(text) THEN {}
    ELSE LET e == IpMatchEnd(text, p) IN
         IF e = -1 THEN IpFindIter(text, p + 1)
         ELSE {<<p, e>>} \cup IpFindIter(text, e)

\* The columns range(match.start(), match.end()) of a set of matches.
Covered(spans) == UNION {s[1]..(s[2] - 1) : s \in spans}

\* colors[i] = color for the columns that have no color yet.
Fill(colors, columns, color) ==
    [c \in (DOMAIN colors) \cup columns |->
        IF c \in DOMAIN colors THEN colors[c] ELSE color]

\* The loop over SYNTAX_PATTERNS from the k-th category on.
RECURSIVE FillCategories(_, _, _)
FillCategories(colors, text, k) ==
    IF k > Len(SYNTAX_RULES) THEN colors
    ELSE FillCategories(
             Fill(colors, Covered(WordFindIter(text, 0, SYNTAX_RULES[k].words)),
                  SYNTAX_RULES[k].color),
             text, k + 1)

\* A color map with no column in it.
NoColors == [c \in {} |-> ""]

\* A widget that ignores the syntax_highlight setting.
HighlightAlways(enabled) == TRUE

\* self.settings.get('syntax_highlight', True)
Highlight(enabled) == enabled

\* TerminalWidget._get_syntax_colors(line_text)
GetSyntaxColors(enabled, text) ==
    IF ~Highlight(enabled) THEN NoColors
    ELSE FillCategories(Fill(NoColors, Covered(IpFindIter(text, 0)), IP_COLOR),
                        text, 1)

\* The words lines are made of in the overlay check: lexicon words of several
\* categories, one in another case, one inside a longer word, hyphenated
\* lexicon words, an address and an address with a prefix length.
Tokens ==
    {
      <<115, 104, 111, 119>>,  \* show
      <<83, 104, 111, 119>>,  \* Show
      <<115, 104, 111, 119, 115>>,  \* shows
      <<105, 112>>,  \* ip
      <<105, 110, 116, 101, 114, 102, 97, 99, 101>>,  \* interface
      <<101, 116, 104, 45, 116, 114, 117, 110, 107>>,  \* eth-trunk
      <<114, 111, 117, 116, 101, 45, 109, 97, 112>>,  \* route-map
      <<115, 116, 112>>,  \* stp
      <<117, 112>>,  \* up
      <<49, 48, 46, 48, 46, 48, 46, 49>>,  \* 10.0.0.1
      <<49, 48, 46, 48, 46, 48, 46, 49, 47, 50, 52>>  \* 10.0.0.1/24
    }

\* Lines of one to n words with single blanks between them.
RECURSIVE LinesOf(_)
LinesOf(n) ==
    IF n = 1 THEN Tokens
    ELSE LinesOf(n - 1) \cup
         {l \o <<SPACE>> \o w : l \in LinesOf(n - 1), w \in Tokens}

\* "show ip interface"
ShowIpInterface ==
    <<115, 104, 111, 119, 32, 105, 112, 32, 105, 110, 116, 101, 114, 102, 97,
      99, 101>>

\* The lines of the overlay check.
Lines == LinesOf(MaxTokens) \cup {ShowIpInterface}

\* TerminalColors.PALETTE
PALETTE ==
    <<"#000000", "#cd0000", "#00cd00", "#cdcd00",
      "#0000ee", "#cd00cd", "#00cdcd", "#e5e5e5",
      "#7f7f7f", "#ff0000", "#00ff00", "#ffff00",
      "#5c5cff", "#ff00ff", "#00ffff", "#ffffff">>

\* name_map of TerminalColors.get_color
name_map ==
    [black |-> 0, red |-> 1, green |-> 2, yellow |-> 3,
     blue |-> 4, magenta |-> 5, cyan |-> 6, white |-> 7,
     brightblack |-> 8, brightred |-> 9, brightgreen |-> 10,
     brightyellow |-> 11, brightblue |-> 12, brightmagenta |-> 13,
     brightcyan |-> 14, brightwhite |-> 15]

\* The color names a cell of the screen carries in the overlay check: the
\* default, names of the palette, a name pyte uses that the palette does not
\* know, and a color given by its hexadecimal digits.
ColorNames == {"default", "red", "blue", "brown", "ff8700"}

\* The names the bold attribute turns into their bright variant.
BasicNames ==
    {"black", "red", "green", "yellow", "blue", "magenta", "cyan", "white"}

\* 'bright' + fg_name, for the names of the model.
Bright(name) ==
    CASE name = "red" -> "brightred"
      [] name = "blue" -> "brightblue"
      [] OTHER -> name

\* TerminalColors.get_color(code) for a color name: None for the default,
\* the palette entry of a known name, entry 7 for any other name.
get_color(code) ==
    IF code = "default" THEN "None"
    ELSE PALETTE[(IF code \in DOMAIN name_map THEN name_map[code] ELSE 7) + 1]

\* An overlay that replaces whatever color the cell has.
UseOverlayAlways(fg, col, colors) == col \in DOMAIN colors

\* "fg is None and col in syntax_colors" of paintEvent
UseOverlay(fg, col, colors) == fg = "None" /\ col \in DOMAIN colors

\* The colors paintEvent uses for one cell of a row: fg after the overlay
\* step, then the pen color after the defaults, reverse video and selection.
CellColors(col, fg_name, bg_name, is_bold, is_reverse, is_selected, colors) ==
    LET name == IF is_bold /\ fg_name \in BasicNames THEN Bright(fg_name)
                ELSE fg_name
        fg0 == get_color(name)
        bg == get_color(bg_name)
        fg == IF UseOverlay(fg0, col, colors) THEN colors[col] ELSE fg0
        fg_color == IF fg # "None" THEN fg ELSE "self.fg_color"
        bg_color == IF bg # "None" THEN bg ELSE "self.bg_color"
        pen == IF is_selected THEN "#1e1e2e"
               ELSE IF is_reverse THEN bg_color ELSE fg_color
    IN [col |-> col, fg_name |-> fg_name, is_bold |-> is_bold,
        is_reverse |-> is_reverse, is_selected |-> is_selected,
        fg |-> fg, fg_color |-> fg_color, pen |-> pen]

\* No cell has been painted.
NoCellPainted == [col |-> -1]

\* No overlay check is in progress.
SynParked ==
    /\ row_text = <<>> /\ syntax_highlight = TRUE
    /\ paintPc = "line" /\ syntax_colors = NoColors
    /\ painted = NoCellPainted

\* A row of text about to be painted, highlighting on or off.
SynInit0 ==
    /\ row_text \in Lines /\ syntax_highlight \in BOOLEAN
    /\ paintPc = "line" /\ syntax_colors = NoColors
    /\ painted = NoCellPainted

synFrame == <<sessVars, feedVars, termVars, logVars, winVars>>

\* paintEvent: syntax_colors = self._get_syntax_colors(line_text)
SyntaxColors ==
    /\ paintPc = "line"
    /\ syntax_colors' = GetSyntaxColors(syntax_highlight, row_text)
    /\ paintPc' = "cells"
    /\ UNCHANGED <<synFrame, row_text, syntax_highlight, painted>>

\* paintEvent: the colors of one cell of the row, whatever its attributes.
PaintCell ==
    /\ paintPc = "cells" /\ painted = NoCellPainted
    /\ \E col \in 0..(Len(row_text) - 1), fg_name \in ColorNames,
          bg_name \in {"default", "blue"}, is_bold \in BOOLEAN,
          is_reverse \in BOOLEAN, is_selected \in BOOLEAN :
          painted' = CellColors(col, fg_name, bg_name, is_bold, is_reverse,
                                is_selected, syntax_colors)
    /\ UNCHANGED <<synFrame, row_text, syntax_highlight, paintPc,
                   syntax_colors>>

\* ------------------------------------------------------ the session log

\* What the steps of _on_data_received in the reader thread leave alone.
callbackFrame == <<kind, cfg, sessions, connects, client, clientObj, channel,
                   chanObj, serial_conn, serObj, running, cancelled, workerPc,
                   connectResult, guiPc, guiCtx, statusVisible, tabOpen,
                   connErrs, discCalled, discOnLive, discQuiet, quietDiscs,
                   closeFailed, userCancelled, connectedRuns, failedRuns,
                   ptySize, sizeVars, sendVars, feedVars, termVars, synVars,
                   winVars, readerOnly, postVars, lastError, logger, log_file,
                   logFileObj>>

\* What the logger steps of SessionTab.disconnect leave alone.
loggerFrame == <<kind, cfg, sessions, connects, workerPc, connectResult,
                 readerPc, readerOnly, lastError, connErrs, stepsSinceDisc,
                 sizeVars, sendVars, feedVars, termVars, synVars, winVars,
                 client, clientObj, channel, chanObj, ptySize, serial_conn,
                 serObj, running, cancelled, guiQueue, statusVisible, tabOpen,
                 fed, screenWriters, discCalled, discOnLive, discQuiet,
                 quietDiscs, closeFailed, userCancelled, connectedRuns,
                 failedRuns, cbRaised, logged>>

\* A tab without a logger (logging is not enabled in the settings).
LogParked ==
    /\ logger = "None" /\ log_file = "None" /\ logFileObj = "absent"
    /\ cbRaised = FALSE /\ logged = 0

\* _setup_logging has made a SessionLogger: its file is open, or open()
\* failed and log_file is None.
LogEnabled ==
    /\ logger = "obj"
    /\ \/ log_file = "obj" /\ logFileObj = "open"
       \/ log_file = "None" /\ logFileObj = "absent"
    /\ cbRaised = FALSE /\ logged = 0

\* An attribute read on self.logger when the field holds None raises
\* AttributeError out of _on_data_received, into _read_loop's except clause.
CallbackRaise(r) ==
    /\ readerPc' = [readerPc EXCEPT ![r] = Raised]
    /\ cbRaised' = TRUE

\* `if self.logger` (the first operand of the `and`)
CbLogger(r) ==
    /\ readerPc[r] = "cb_logger"
    /\ readerPc' = [readerPc EXCEPT ![r] = IF logger = "None" THEN "sleep"
                                           ELSE "cb_active"]
    /\ Tick
    /\ UNCHANGED <<callbackFrame, cbRaised, logged>>

\* `self.logger.is_active`: the field is read again; is_active is
\* `self.log_file is not None`.
CbActive(r) ==
    /\ readerPc[r] = "cb_active"
    /\ IF logger = "None"
       THEN CallbackRaise(r)
       ELSE /\ readerPc' = [readerPc EXCEPT ![r] = IF log_file = "None"
                                                  THEN "sleep" ELSE "cb_write"]
            /\ UNCHANGED cbRaised
    /\ Tick
    /\ UNCHANGED <<callbackFrame, logged>>

\* `self.logger.write(data)`: the field is read a third time.
CbWrite(r) ==
    /\ readerPc[r] = "cb_write"
    /\ IF logger = "None"
       THEN CallbackRaise(r)
       ELSE /\ readerPc' = [readerPc EXCEPT ![r] = "w_check"]
            /\ UNCHANGED cbRaised
    /\ Tick
    /\ UNCHANGED <<callbackFrame, logged>>

\* SessionLogger.write: `if not self.log_file: return`
LogWriteCheck(r) ==
    /\ readerPc[r] = "w_check"
    /\ readerPc' = [readerPc EXCEPT ![r] = IF log_file = "None" THEN "sleep"
                                           ELSE "w_write"]
    /\ Tick
    /\ UNCHANGED <<callbackFrame, cbRaised, logged>>

\* SessionLogger.write: self.log_file.write(...) and flush() inside
\* `try: ... except Exception: pass`: a field cleared meanwhile or a closed
\* file raises, and the exception is swallowed.
LogWriteFile(r) ==
    /\ readerPc[r] = "w_write"
    /\ logged' = IF log_file = "obj" /\ logFileObj = "open" THEN logged + 1
                 ELSE logged
    /\ readerPc' = [readerPc EXCEPT ![r] = "sleep"]
    /\ Tick
    /\ UNCHANGED <<callbackFrame, cbRaised>>

Callback ==
    \E r \in Readers :
        \/ CbLogger(r) \/ CbActive(r) \/ CbWrite(r)
        \/ LogWriteCheck(r) \/ LogWriteFile(r)

\* SessionTab.disconnect: self.logger.close(); SessionLogger.close:
\* `if self.log_file:` write the footer and close the file (exceptions
\* swallowed).
LoggerClose ==
    /\ guiPc = "l_close"
    /\ logFileObj' = IF log_file = "obj" THEN "closed" ELSE logFileObj
    /\ guiPc' = IF log_file = "obj" THEN "l_file_none" ELSE "l_clear"
    /\ UNCHANGED <<loggerFrame, guiCtx, logger, log_file>>

\* SessionLogger.close: self.log_file = None
LoggerFileNone ==
    /\ guiPc = "l_file_none"
    /\ log_file' = "None"
    /\ guiPc' = "l_clear"
    /\ UNCHANGED <<loggerFrame, guiCtx, logger, logFileObj>>

\* SessionTab.disconnect: self.logger = None, then the connect-thread test.
LoggerClear ==
    /\ guiPc = "l_clear"
    /\ logger' = "None"
    /\ guiPc' = DisconnectEntry
    /\ guiCtx' = DisconnectCtx
    /\ UNCHANGED <<loggerFrame, log_file, logFileObj>>

LoggerSteps == LoggerClose \/ LoggerFileNone \/ LoggerClear

\* ------------------------------------------------------------- the window

\* SessionTabs opened during the life of the window.
MaxTabs == 3

\* The stored connections of the tree (their ids).
Connections == {"c1", "c2"}

NoTabs == [c \in {} |-> 0]

\* The tabs MainWindow.sessions holds: self.sessions.values()
Tracked(d) == {d[c] : c \in DOMAIN d}

\* The tabs of the tab widget.
OpenTabs(ts) == {ts[i] : i \in 1..Len(ts)}

\* The window as constructed: no tab, self.sessions = {}.
WinParked ==
    /\ tabs = <<>> /\ win_sessions = NoTabs /\ tabConn = NoTabs
    /\ disconnected = {} /\ winClosed = FALSE

winFrame == <<sessVars, feedVars, termVars, synVars, logVars>>

\* self.sessions[conn_id] = tab
Track(d, conn_id, tab) == SetItem(d, conn_id, tab)

\* MainWindow._connect_selected on a connection item of the tree: a new
\* SessionTab is added to the tab widget and stored under the connection id.
ConnectSelected ==
    /\ ~winClosed /\ Cardinality(DOMAIN tabConn) < MaxTabs
    /\ \E conn_id \in Connections :
         LET tab == Cardinality(DOMAIN tabConn) + 1 IN
           /\ tabs' = Append(tabs, tab)
           /\ win_sessions' = Track(win_sessions, conn_id, tab)
           /\ tabConn' = SetItem(tabConn, tab, conn_id)
    /\ UNCHANGED <<winFrame, disconnected, winClosed>>

\* MainWindow._close_tab(index): the tab is disconnected, its entry of
\* self.sessions (if it has one) is deleted, the tab is removed.
MainCloseTab ==
    /\ ~winClosed
    /\ \E index \in 1..Len(tabs) :
         LET widget == tabs[index] IN
           /\ disconnected' = disconnected \cup {widget}
           /\ win_sessions' = Pop(win_sessions,
                  {sid \in DOMAIN win_sessions : win_sessions[sid] = widget})
           /\ tabs' = Without(tabs, index)
    /\ UNCHANGED <<winFrame, tabConn, winClosed>>

\* MainWindow.closeEvent: disconnect() on every tab of self.sessions.
CloseEvent ==
    /\ ~winClosed
    /\ disconnected' = disconnected \cup Tracked(win_sessions)
    /\ winClosed' = TRUE
    /\ UNCHANGED <<winFrame, tabs, win_sessions, tabConn>>

\* ------------------------------------------------------------ the program

Init == InitSess /\ FeedParked /\ TermParked /\ SynParked /\ LogParked
    /\ WinParked

Next == Worker \/ Reader \/ Gui

Spec == Init /\ [][Next]_vars

\* A tab whose connect() has returned True, whose _on_connected has run and
\* whose reader has not read yet: the session is Connected, nothing is queued.
ConnectedIdle ==
    /\ kind \in {"ssh", "serial"} /\ cfg = "ok"
    /\ sessions = 1 /\ connects = 1
    /\ client = (IF kind = "ssh" THEN "obj" ELSE "None")
    /\ clientObj = (IF kind = "ssh" THEN "open" ELSE "absent")
    /\ channel = (IF kind = "ssh" THEN "obj" ELSE "None")
    /\ chanObj = (IF kind = "ssh" THEN "open" ELSE "absent")
    /\ serial_conn = (IF kind = "ssh" THEN "None" ELSE "obj")
    /\ serObj = (IF kind = "ssh" THEN "absent" ELSE "open")
    /\ running = TRUE /\ cancelled = FALSE
    /\ workerPc = "done" /\ connectResult = "true"
    /\ readerPc = [r \in Readers |-> IF r = 1 THEN "check" ELSE "none"]
    /\ chunks = 0
    /\ guiPc = "idle" /\ guiCtx = "none" /\ guiQueue = <<>>
    /\ statusVisible = FALSE /\ tabOpen = TRUE
    /\ fed = <<>> /\ lastError = "none"
    /\ connErrs = 0 /\ readErrs = 0 /\ readFault = FALSE
    /\ discCalled = FALSE /\ discOnLive = FALSE /\ discQuiet = FALSE
    /\ quietDiscs = 0 /\ closeFailed = FALSE
    /\ stepsSinceDisc = 0 /\ errAfterDisc = FALSE /\ userCancelled = FALSE
    /\ connectedRuns = 1 /\ failedRuns = 0
    /\ screenWriters = {"gui"}
    /\ termSize = <<Cols, Rows>>
    /\ cfgSize = (IF kind = "ssh" THEN termSize ELSE NoSize)
    /\ ptySize = cfgSize
    /\ resizes = 0

\* Session.send against a Connected session: the reader reads, the tab is
\* closed (SessionTab.disconnect), and a thread calls send() at any time.
SendInit ==
    /\ ConnectedIdle
    /\ sendPc = "idle" /\ sends = 0 /\ sendErrs = 0 /\ sendFails = 0
    /\ sendOutcome = "none"
    /\ FeedParked /\ TermParked /\ SynParked /\ LogParked
    /\ WinParked

SendNext ==
    \/ Reader \/ Sender \/ Deliver
    \/ CloseTab \/ CloseDisc \/ DiscRunning \/ DiscChannel \/ DiscClient
    \/ DiscSerial \/ CloseEnd

SendSpec == SendInit /\ [][SendNext]_vars

\* The decoder on its own: the tab's session is left as constructed.
FeedInit ==
    InitSess /\ kind = "ssh" /\ cfg = "ok" /\ InitFeed /\ TermParked /\ SynParked /\ LogParked
    /\ WinParked

FeedNext == WriteChunk \/ WriteWhole

FeedSpec == FeedInit /\ [][FeedNext]_vars

\* The terminal widget on its own, handling one event after another in the
\* interactive thread: the tab's session is left as constructed.
TermInit ==
    InitSess /\ kind = "ssh" /\ cfg = "ok" /\ FeedParked /\ TermParked /\ SynParked /\ LogParked
    /\ WinParked

TermNext ==
    \/ TermFeed \/ MousePress \/ MouseMove \/ MouseRelease \/ MouseDoubleClick
    \/ WheelEvent \/ ResizeEvent \/ ClearTerminal \/ Paint

TermSpec == TermInit /\ [][TermNext]_vars

\* The syntax overlay and the cell colors of paintEvent on their own, for one
\* row of text.
SynInit ==
    InitSess /\ kind = "ssh" /\ cfg = "ok" /\ FeedParked /\ TermParked /\ SynInit0
    /\ LogParked /\ WinParked

SynNext == SyntaxColors \/ PaintCell

SynSpec == SynInit /\ [][SynNext]_vars

\* ----------------------------------------------------------------- claims

\* The session log of a tab with logging enabled: the reader delivers data
\* to _on_data_received while the tab is closed.
LogInit ==
    /\ ConnectedIdle
    /\ sendPc = "idle" /\ sends = 0 /\ sendErrs = 0 /\ sendFails = 0
    /\ sendOutcome = "none"
    /\ FeedParked /\ TermParked /\ SynParked /\ LogEnabled /\ WinParked

LogNext ==
    \/ Reader \/ Callback \/ Deliver
    \/ CloseTab \/ LoggerSteps \/ CloseDisc \/ DiscRunning \/ DiscChannel
    \/ DiscClient \/ DiscSerial \/ CloseEnd

LogSpec == LogInit /\ [][LogNext]_vars

\* The window on its own: tabs are opened and closed, the window is closed.
WinInit ==
    /\ InitSess /\ kind = "ssh" /\ cfg = "ok"
    /\ FeedParked /\ TermParked /\ SynParked /\ LogParked /\ WinParked

WinNext == ConnectSelected \/ MainCloseTab \/ CloseEvent

WinSpec == WinInit /\ [][WinNext]_vars

\* The session fields of a Disconnected session.
Disconnected ==
    /\ ~running
    /\ channel = "None" /\ client = "None" /\ serial_conn = "None"

\* A session that holds no transport: as Disconnected, except that the client
\* field may still hold a client object that never got a connection.
Released ==
    /\ ~running
    /\ channel = "None" /\ serial_conn = "None"
    /\ (client = "None" \/ clientObj # "open")

\* C1: if the user cancels while the tab is Connecting, then once the cancel
\* handler and the connect worker have both finished the session is
\* Disconnected: running is false, no channel, serial handle or connected
\* client is held and no reader thread goes on reading.
C1_CancelReachesDisconnected ==
    (userCancelled /\ guiPc = "idle" /\ workerPc = "done")
        => (Released /\ (AliveReaders # {} => ~LoopGuard))

\* C2: after the cancel handler has run for a connect attempt, neither
\* _on_connected nor _on_connection_failed is executed for that attempt.
C2_NoOutcomeHandlerAfterCancel ==
    [][userCancelled => (connectedRuns' = connectedRuns /\ failedRuns' = failedRuns)]_vars

\* C3: a read error in the reader loop stops the loop with exactly one error
\* callback, and once disconnect() has been called (the running flag is
\* cleared) the reader loop delivers no error callback.
C3_ReaderErrorContract ==
    /\ readErrs <= 1
    /\ (readFault /\ ~discCalled /\ AliveReaders = {}) => readErrs = 1
    /\ ~errAfterDisc

\* C4: for every inbound byte sequence and every way of splitting it into
\* chunks, writing the chunks one after another leaves the screen (grid,
\* cursor, history) as writing the whole sequence in a single call does.
C4_ChunkingInvariant ==
    (pending = <<>> /\ wholeFed) => Screen(termC) = Screen(termW)

\* C5: a session that has been Cancelled (the cancel handler has run), has
\* Failed (connect() returned false) or was Disconnected (the tab's
\* disconnect has returned) never later becomes Connected (running true with
\* a channel).
C5_NoConnectedAfterDown ==
    [][((userCancelled \/ connectResult = "false" \/ ~tabOpen) /\ ~is_connected)
           => ~is_connected']_vars

\* C6: after the reader loop of a Connected session has ended because of a
\* read error, the error has been reported once and is_connected is false.
C6_ReadErrorDisconnects ==
    (readErrs > 0 /\ AliveReaders = {}) => (readErrs = 1 /\ ~is_connected)

\* C7: once the tab has been closed and removed (and the connect worker it
\* cancelled has returned), the session holds no transport and no reader
\* thread goes on reading, in whatever phase the tab was closed.
C7_CloseTabDisconnects ==
    (~tabOpen /\ workerPc = "done")
        => (Released /\ (AliveReaders # {} => ~LoopGuard))

\* C8: when disconnect() is called on a Connected session, the reader loop
\* ends within the steps of the iteration it is in (at most ReaderIterSteps
\* steps of its own) and no exception leaves the reader thread.
C8_ReaderStopsAfterDisconnect ==
    /\ discOnLive => stepsSinceDisc <= ReaderIterSteps
    /\ \A r \in Readers : readerPc[r] # "escaped"

\* C8 witness: a disconnect() on a Connected session caught the reader in the
\* middle of an iteration, and the reader used its last steps and ended.
C8_Witness ==
    discOnLive /\ stepsSinceDisc = ReaderIterSteps /\ AliveReaders = {}

\* C9: once a disconnect() that ran with no connect() in progress has
\* returned, the session is Disconnected (running false, channel, client and
\* serial handle cleared, is_connected false), also while and after further
\* disconnect() calls and also when a close() raised.
C9_DisconnectIdempotent ==
    quietDiscs >= 1 => (Disconnected /\ ~is_connected)

\* C9 witness: disconnect() has returned twice with no connect() running, and
\* a close() of the transport raised.
C9_Witness ==
    quietDiscs = 2 /\ closeFailed /\ connectResult = "true"

\* C10: the tab creates exactly one Session and starts exactly one connect
\* operation; at most one reader thread is alive, and a reader thread exists
\* only when connect() returned true.
C10_OneSessionOneReader ==
    /\ sessions <= 1 /\ connects <= 1
    /\ guiPc # "init" => (sessions = 1 /\ connects = 1)
    /\ Cardinality(AliveReaders) <= 1
    /\ \A r \in Readers : readerPc[r] # "none" => connectResult = "true"

\* C10 witness: connect() has returned true and its one reader is reading.
C10_Witness ==
    /\ connectResult = "true" /\ Cardinality(AliveReaders) = 1
    /\ \E r \in Readers : readerPc[r] = "recv"

\* C11: the chunks the reader loop read are fed to the decoder in the order
\* they were read: no chunk is fed before one that was read earlier.
C11_ChunksFedInReadOrder ==
    \A i, j \in 1..Len(fed) : i < j => fed[i] < fed[j]

\* C11 witness: the reader read two chunks and both have been fed.
C11_Witness ==
    Len(fed) >= 2 /\ Len(fed) = chunks

\* C12: only the interactive thread executes _do_write_data; the reader and
\* the connect worker only post their data, error and outcome events.
C12_ScreenWrittenOnlyByGui ==
    screenWriters \subseteq {"gui"}

\* C12 witness: a chunk, a read error and the connect outcome, all posted by
\* background threads, have been delivered and written by the interactive
\* thread.
C12_Witness ==
    /\ fed # <<>> /\ readErrs = 1 /\ connectedRuns = 1
    /\ guiQueue = <<>> /\ screenWriters = {"gui"}

NoCredentials(c) ==
    HasHost(c) /\ HasUser(c) /\ ~HasPassword(c) /\ KeyFile(c) # "exists"

\* The positions of connect() from the call of client.connect on.
NetworkPcs == {"c_conn_call", "c_conn_wait", "c_shell", "c_chan_assign",
               "c_settimeout", "c_running", "c_thread"}

C15_SendNeverRaises ==
    /\ sendOutcome # "raised"
    /\ sendErrs = sendFails

\* C15 witness: send() passed `if self.channel:`, disconnect() cleared the
\* handle, and the write raised into the error callback.
C15_Witness ==
    /\ sendOutcome = "error" /\ Handle = "None" /\ discCalled
    /\ sendErrs = 1

\* C16: whenever the SSH session is Connected, the remote PTY has the
\* terminal's current size.
C16_PtyFollowsTerminal ==
    (kind = "ssh" /\ is_connected) => ptySize = termSize

\* C17: with logging enabled, once every chunk of the inbound stream has been
\* handled by _on_data_received the session log holds the inbound stream with
\* its control sequences stripped, however the stream was cut into chunks.
C17_LogEqualsStrippedStream ==
    (logging /\ pending = <<>>) => logText = StripAnsi(Decode(input))

\* C18: the scrollback history never holds more than HistoryCap rows, and an
\* event changes it only by emptying it (clear) or by one scroll at the bottom
\* row that appends the top row of the grid: to the end when there is room,
\* and in place of the single oldest row, the rest keeping their order, when
\* the history is full.
C18_HistoryRing ==
    [][/\ Len(term'.history) <= HistoryCap
       /\ term'.history # term.history =>
             \/ term'.history = <<>>
             \/ /\ term.y = term.lines - 1
                /\ term'.pushed = term.pushed + 1
                /\ IF Len(term.history) < HistoryCap
                   THEN term'.history = Append(term.history, Row(term.buffer, 0))
                   ELSE /\ Len(term'.history) = HistoryCap
                        /\ \A i \in 1..(HistoryCap - 1) :
                              term'.history[i] = term.history[i + 1]
                        /\ term'.history[HistoryCap] = Row(term.buffer, 0)
       /\ term'.pushed # term.pushed =>
             /\ term.y = term.lines - 1
             /\ term'.history # <<>>
             /\ term'.history[Len(term'.history)] = Row(term.buffer, 0)]_vars

\* More rows than the history holds have been scrolled off a grid whose top
\* row had text, and the history is full.
C18_Witness ==
    /\ term.pushed > HistoryCap
    /\ Len(term.history) = HistoryCap
    /\ \E i \in 1..Len(term.history) : term.history[i] # EmptyLine

\* C19: whenever a selection is set, _get_selected_text returns the same text
\* with anchor and focus swapped, a second call right after the first returns
\* the same text again, and the call leaves the terminal as it was.
C19_ResolveSymmetricIdempotent ==
    (selection_start # NoCell /\ selection_end # NoCell) =>
        LET first == GetSelectedText(term, selection_start, selection_end)
            swapped == GetSelectedText(term, selection_end, selection_start)
            second == GetSelectedText(first.term, selection_start, selection_end)
        IN /\ swapped.text = first.text
           /\ second.text = first.text
           /\ first.term = term
           /\ second.term = first.term

\* A selection end that refers to a column of the grid (for the focus, which
\* a double click sets to the column after the word, also the one just past
\* the last) and to a row of the grid or of the history.
Addressable(pos, past) ==
    /\ pos[1] < term.columns + past
    /\ pos[2] < term.lines + Len(term.history)

\* C20: after any sequence of mouse selection, double click, data, scrolling,
\* resize and clear, the selection's anchor and focus, when set, refer to a
\* row and a column that exist in the current grid plus history.
C20_SelectionAddressable ==
    /\ selection_start # NoCell => Addressable(selection_start, 0)
    /\ selection_end # NoCell => Addressable(selection_end, 1)

\* The text a row of the grid shows, one character per column.
RowText(t, row) == [i \in 1..t.columns |-> CellOf(Row(t.buffer, row), i - 1)]

\* The rows s[2] .. e[2] of the grid from row on, cut the way the selection
\* from s to e (s before e) cuts them: the first from its start column, the
\* last up to its end column, a single row between the two columns.
RECURSIVE CutRows(_, _, _, _)
CutRows(t, row, s, e) ==
    IF row > e[2] THEN <<>>
    ELSE LET text == RowText(t, row)
             from == IF row = s[2] THEN s[1] ELSE 0
             to == IF row = e[2] THEN e[1] ELSE Len(text)
         IN <<SubSeq(text, from + 1, to)>> \o CutRows(t, row + 1, s, e)

\* C21: a selection with no anchor or focus, or with anchor equal to focus,
\* resolves to the empty text; any other selection inside the grid resolves
\* to its rows, cut at the start and end columns, each with its trailing
\* blanks removed, joined by line feeds.
C21_SelectedTextFormat ==
    LET text == GetSelectedText(term, selection_start, selection_end).text IN
    IF selection_start = NoCell \/ selection_end = NoCell
       \/ selection_start = selection_end
    THEN text = <<>>
    ELSE (selection_start \in Cells(term) /\ selection_end \in Cells(term)) =>
            LET n == Normalized(selection_start, selection_end)
            IN text = JoinLines(CutRows(term, n[1][2], n[1], n[2]))

\* Column c lies inside an occurrence of a word of the k-th category that is
\* a whole word of the text, compared without regard to case.
WholeWordCovers(text, k, c) ==
    \E i \in 1..Len(SYNTAX_RULES[k].words) :
        LET w == SYNTAX_RULES[k].words[i] IN
        \E p \in 0..c :
            /\ c < p + Len(w)
            /\ LiteralAt(text, p, w)
            /\ Boundary(text, p) /\ Boundary(text, p + Len(w))

\* C22: the overlay of a row gives each column at most one color: the IP
\* color to a column inside an address match; to any other column the color
\* of the first category, in the order keyword, network, interface, status,
\* protocol, that has a whole-word, case-insensitive match covering it; and
\* no color to a column that no category covers.
C22_OverlayPriority ==
    (paintPc = "cells" /\ syntax_highlight) =>
        \A c \in 0..(Len(row_text) - 1) :
            LET cats == {k \in 1..Len(SYNTAX_RULES) :
                            WholeWordCovers(row_text, k, c)}
            IN IF c \in Covered(IpFindIter(row_text, 0))
               THEN c \in DOMAIN syntax_colors /\ syntax_colors[c] = IP_COLOR
               ELSE IF cats = {} THEN c \notin DOMAIN syntax_colors
               ELSE /\ c \in DOMAIN syntax_colors
                    /\ syntax_colors[c] =
                          SYNTAX_RULES[CHOOSE k \in cats :
                                          \A j \in cats : k <= j].color

C25_ShowIpInterface ==
    paintPc = "cells" =>
        /\ (syntax_highlight /\ row_text = ShowIpInterface) =>
              syntax_colors =
                  [c \in (0..3) \cup (5..6) \cup (8..16) |->
                      IF c \in 5..6 THEN "#a6e3a1" ELSE "#89b4fa"]
        /\ ~syntax_highlight => syntax_colors = NoColors

\* The overlay of "show ip interface" has been computed with highlighting
\* enabled.
C25_Witness ==
    /\ paintPc = "cells" /\ syntax_highlight /\ row_text = ShowIpInterface
    /\ DOMAIN syntax_colors # {}

\* Every cell of the grid is blank.
GridBlank(t) ==
    \A r \in 0..(t.lines - 1), c \in 0..(t.columns - 1) :
        CellOf(Row(t.buffer, r), c) = SPACE

\* The state clear_terminal leaves, but for the modes.
ClearedButModes(t) ==
    GridBlank(t) /\ t.history = <<>> /\ t.x = 0 /\ t.y = 0

\* C24: clear_terminal, from any state, leaves the grid blank, the history
\* empty, the cursor at (0, 0) and every mode as it is in a terminal that has
\* just been constructed.
C24_ResetToDefaults ==
    [][ClearTerminal =>
          (ClearedButModes(term') /\ term'.mode = NewTerminal.mode)]_vars

\* The text paintEvent draws at row `row` of the view, as a one-element
\* sequence, or the empty sequence when it draws nothing there: with
\* scroll_offset 0 the row of the buffer, otherwise the row of the history
\* or of the buffer that the offset brings to that place.
DrawnLine(t, row) ==
    LET total == Len(t.history)
        history_idx == total - t.scroll_offset + row
        buffer_idx == IF t.scroll_offset > 0 THEN history_idx - total ELSE row
    IN IF t.scroll_offset > 0 /\ 0 <= history_idx /\ history_idx < total
       THEN <<GetLineText(t, t.history[history_idx + 1])>>
       ELSE IF buffer_idx >= 0 /\ buffer_idx < DictLen(t.buffer)
       THEN <<GetLineText(t, Row(t.buffer, buffer_idx))>>
       ELSE <<>>

\* The drawn rows s[2] .. e[2] of the view from row on, cut the way the
\* selection from s to e cuts them (the cells _is_cell_selected marks).
RECURSIVE CutDrawn(_, _, _, _)
CutDrawn(t, row, s, e) ==
    IF row > e[2] THEN <<>>
    ELSE LET drawn == DrawnLine(t, row)
             text == IF drawn = <<>> THEN <<>> ELSE drawn[1]
             piece == IF row = s[2] /\ row = e[2] THEN Slice(text, s[1], e[1])
                      ELSE IF row = s[2] THEN Slice(text, s[1], Len(text))
                      ELSE IF row = e[2] THEN Slice(text, 0, e[1])
                      ELSE text
         IN (IF drawn = <<>> THEN <<>> ELSE <<piece>>) \o
            CutDrawn(t, row + 1, s, e)

\* The view is painted: a paintEvent would change nothing.
Painted(t) == PaintEvent(t, TRUE) = t /\ PaintEvent(t, FALSE) = t

\* C26: on a painted view, at any scroll offset, the text copied for a
\* selection inside the grid is the text of the selected cells of the rows
\* that are drawn at the selected places of the view.
C26_CopiedIsDisplayed ==
    (/\ Painted(term)
     /\ selection_start \in Cells(term) /\ selection_end \in Cells(term)
     /\ selection_start # selection_end) =>
        LET n == Normalized(selection_start, selection_end)
        IN GetSelectedText(term, selection_start, selection_end).text =
               JoinLines(CutDrawn(term, n[1][2], n[1], n[2]))

\* C29: in every reachable state the scroll offset is at least 0 and at most
\* the number of rows in the scrollback history.
C29_ScrollOffsetInHistory ==
    0 <= term.scroll_offset /\ term.scroll_offset <= Len(term.history)

\* The cell at column c of row `row` of the grid holds a word character.
WordAt(t, row, c) ==
    c >= 0 /\ c < t.columns /\ IsWordChar(CellOf(Row(t.buffer, row), c))

\* Columns a .. b of the row all hold word characters.
WordRun(t, row, a, b) == \A c \in a..b : WordAt(t, row, c)

\* C30: a double click on a cell that holds a word character leaves the
\* selection on the maximal run of word characters of that row around the
\* cell, from its first column to the column after its last; a double click
\* on a cell that holds no word character leaves nothing selected.
C30_DoubleClickSelectsWord ==
    [][MouseDoubleClick =>
          LET col == selection_start[1]
              row == selection_start[2]
          IN IF WordAt(term, row, col)
             THEN /\ selection_start'[2] = row /\ selection_end'[2] = row
                  /\ selection_start'[1] <= col /\ col < selection_end'[1]
                  /\ WordRun(term, row, selection_start'[1],
                             selection_end'[1] - 1)
                  /\ ~WordAt(term, row, selection_start'[1] - 1)
                  /\ ~WordAt(term, row, selection_end'[1])
             ELSE GetSelectedText(term', selection_start', selection_end').text
                      = <<>>]_vars

\* C27: while a tab with logging enabled is closed and its reader delivers
\* data, the data callback never raises, the reader makes no read-error
\* callback that no transport failure caused, and the reader loop does not
\* end before session.disconnect() has been called.
C27_LoggerCloseNeverFailsReader ==
    /\ ~cbRaised
    /\ readErrs > 0 => readFault
    /\ \A r \in Readers :
          readerPc[r] = "done" => (discCalled \/ readFault)

\* C28: every tab that is open is tracked in MainWindow.sessions, and once
\* the window has been closed every open tab has been disconnected.
C28_OpenTabsTracked ==
    /\ OpenTabs(tabs) \subseteq Tracked(win_sessions)
    /\ winClosed => OpenTabs(tabs) \subseteq disconnected

====
